---- MODULE Spec2Model ----
(***************************************************************************)
(* A model of pysim5g: the link-budget simulator (system_simulator.py)    *)
(* and its path-loss library (path_loss.py).                              *)
(*                                                                         *)
(* Numbers.  Decibel quantities, spectral efficiencies and every value    *)
(* the code rounds with round(x, 2) are integers counting hundredths.     *)
(* Frequencies are integers counting 0.01 GHz (f100), distances integers  *)
(* counting metres, heights integers counting decimetres.  log10 and      *)
(* 10**x are evaluated from a two-significant-digit logarithm table, so   *)
(* linear-domain values carry two significant digits.                     *)
(* Python's None is the empty tuple, a present value x is <<x>>.          *)
(***************************************************************************)
EXTENDS Integers, Sequences, FiniteSets, TLC

VARIABLES
    transmitter,               \* SimulationManager.transmitter
    site_area,                 \* SimulationManager.site_area
    receivers,                 \* SimulationManager.receivers (insertion-ordered dict)
    interfering_transmitters,  \* SimulationManager.interfering_transmitters (ordered dict)
    call,                      \* arguments of the estimate_link_budget call in progress
    pc,                        \* position of the caller: idle, loop, returned, raised
    results,                   \* the results list of estimate_link_budget
    error,                     \* the exception that left the last call, None if none
    rng,                       \* state of the process-wide generator np.random
    fn,                        \* last library function applied directly
    input,                     \* its arguments
    output,                    \* what it returned or raised
    first                      \* an earlier call kept for comparison

vars == <<transmitter, site_area, receivers, interfering_transmitters, call,
          pc, results, error, rng, fn, input, output, first>>

simvars == <<transmitter, site_area, receivers, interfering_transmitters, call,
             pc, results, error>>

-----------------------------------------------------------------------------
(* Bounds of the model.                                                    *)

MaxLutLen == 4
MaxInterference == 5
MaxReceivers == 2
MaxInterferers == 2
RngMod == 4

-----------------------------------------------------------------------------
(* Python values.                                                          *)

None == <<>>

Some(x) == <<x>>

IsNone(v) == v = <<>>

Val(v) == v[1]

\* the outcome of a call: what it returned or raised, and the state in which
\* it left the generator np.random
Returned(v, r) == [kind |-> "return", value |-> v, rng |-> r]

Raised(type, msg, arg, r) ==
    [kind |-> "raise", type |-> type, msg |-> msg, arg |-> arg, rng |-> r]

IsReturn(o) == o.kind = "return"

IsRaise(o) == o.kind = "raise"

-----------------------------------------------------------------------------
(* Arithmetic.                                                             *)

Abs(x) == IF x < 0 THEN -x ELSE x

Max(a, b) == IF a >= b THEN a ELSE b

Min(a, b) == IF a <= b THEN a ELSE b

\* The arithmetic below is written as functions applied by thin operators.

Pow10F[k \in Int] == IF k <= 0 THEN 1 ELSE 10 * Pow10F[k - 1]

Pow10(k) == Pow10F[k]

NumDigitsF[n \in Int] == IF n < 10 THEN 1 ELSE 1 + NumDigitsF[n \div 10]

NumDigits(n) == NumDigitsF[n]

\* round(100 * log10(m / 10)) for m = 10 .. 99
LogTable ==
    <<0, 4, 8, 11, 15, 18, 20, 23, 26, 28, 30, 32, 34, 36, 38, 40, 41, 43, 45,
      46, 48, 49, 51, 52, 53, 54, 56, 57, 58, 59, 60, 61, 62, 63, 64, 65, 66,
      67, 68, 69, 70, 71, 72, 72, 73, 74, 75, 76, 76, 77, 78, 79, 79, 80, 81,
      81, 82, 83, 83, 84, 85, 85, 86, 86, 87, 88, 88, 89, 89, 90, 90, 91, 91,
      92, 92, 93, 93, 94, 94, 95, 95, 96, 96, 97, 97, 98, 98, 99, 99, 100>>

Log10cF[n \in Int] ==
    LET k == NumDigitsF[n]
        m == IF k = 1 THEN n * 10 ELSE n \div Pow10F[k - 2]
    IN  100 * (k - 1) + LogTable[m - 9]

\* np.log10(n) in hundredths, n a positive integer (two leading digits used)
Log10c(n) == Log10cF[n]

\* for c = 0 .. 99, the two-digit mantissa whose table logarithm is nearest c
AntilogTable ==
    <<10, 10, 10, 11, 11, 11, 11, 12, 12, 12, 13, 13, 13, 13, 14, 14, 14,
      15, 15, 15, 16, 16, 17, 17, 17, 18, 18, 18, 19, 19, 20, 20, 21, 21,
      22, 22, 23, 23, 24, 24, 25, 26, 26, 27, 27, 28, 29, 29, 30, 31, 31,
      32, 33, 34, 35, 35, 36, 37, 38, 39, 40, 41, 42, 43, 44, 45, 46, 47,
      48, 49, 50, 51, 52, 54, 55, 56, 57, 59, 60, 61, 63, 64, 66, 67, 69,
      70, 72, 74, 75, 77, 79, 81, 83, 85, 87, 89, 91, 93, 95, 97>>

\* the mantissa (10..99) of 10 ** (c / 100), 0 <= c <= 99
Mantissa(c) == AntilogTable[c + 1]

\* floor division and modulo by 100 of a possibly negative integer
FloorDiv100(c) == IF c >= 0 THEN c \div 100 ELSE -((99 - c) \div 100)

Mod100(c) == c - 100 * FloorDiv100(c)

Float10F[c \in Int] ==
    LET e == IF c >= 0 THEN c \div 100 ELSE -((99 - c) \div 100)
    IN  [m |-> AntilogTable[c - 100 * e + 1], e |-> e]

\* 10 ** (c / 100) as a decimal float: mantissa m (two digits) and exponent e,
\* the value being m * 10 ** (e - 1)
Float10(c) == Float10F[c]

Exp10cF[c \in Int] ==
    LET f == Float10F[c]
    IN  IF f.e >= 1 THEN f.m * Pow10F[f.e - 1]
        ELSE IF f.e = 0 THEN (f.m + 5) \div 10
        ELSE 0

\* 10 ** (c / 100) as an integer, for c >= 0 small enough to fit
Exp10c(c) == Exp10cF[c]

IsqrtFromF[p \in Int \X Int] ==
    IF (p[2] + 1) * (p[2] + 1) > p[1] THEN p[2] ELSE IsqrtFromF[<<p[1], p[2] + 1>>]

\* floor of the square root, by digit-wise refinement
IsqrtF[n \in Int] ==
    IF n < 100 THEN IsqrtFromF[<<n, 0>>]
    ELSE IsqrtFromF[<<n, 10 * IsqrtF[n \div 100]>>]

Isqrt(n) == IsqrtF[n]

\* round to nearest of a / b for b > 0 (halves away from zero)
RoundDiv(a, b) ==
    IF a >= 0 THEN (2 * a + b) \div (2 * b) ELSE -((2 * (-a) + b) \div (2 * b))

RECURSIVE SumSeq(_)
SumSeq(s) == IF s = <<>> THEN 0 ELSE Head(s) + SumSeq(Tail(s))

-----------------------------------------------------------------------------
(* system_simulator.py: SINR to spectral efficiency.                       *)
(* A table entry is the tuple (generation, cqi, modulation, coding rate,   *)
(* spectral efficiency, sinr); Python index k is TLA+ index k + 1.         *)

\* Python truth value of a string
Truthy(s) == s # ""

\* pairwise(iterable): the adjacent pairs, as pairs of positions
pairwise(s) == [i \in 1..(IF Len(s) = 0 THEN 0 ELSE Len(s) - 1) |-> <<s[i], s[i + 1]>>]

\* `if lower[0] and upper[0] == generation`
PairGuard(lower, upper, generation) ==
    Truthy(lower[1]) /\ upper[1] = generation

\* the outcome of one loop iteration: a returned value, or None to go on
PairStep(lower, upper, sinr, generation, lut) ==
    IF ~PairGuard(lower, upper, generation) THEN None
    ELSE IF sinr >= lower[6] /\ sinr < upper[6] THEN Some(lower[5])
    ELSE IF sinr >= lut[Len(lut)][6] THEN Some(lut[Len(lut)][5])
    ELSE IF sinr < lut[1][6] THEN Some(0)
    ELSE None

RECURSIVE McsLoop(_, _, _, _, _)
McsLoop(pairs, k, sinr, generation, lut) ==
    IF k > Len(pairs) THEN None
    ELSE LET r == PairStep(pairs[k][1], pairs[k][2], sinr, generation, lut)
         IN  IF IsNone(r) THEN McsLoop(pairs, k + 1, sinr, generation, lut)
             ELSE r

\* returns Some(spectral efficiency), or None when the loop falls through
modulation_scheme_and_coding_rate(sinr, generation, lut) ==
    McsLoop(pairwise(lut), 1, sinr, generation, lut)

-----------------------------------------------------------------------------
(* Linear-domain values: decimal floats [n, x] standing for n * 10 ** x,   *)
(* kept to Precision significant digits as a float keeps its mantissa.     *)

Precision == 6

RECURSIVE StripZeros(_, _)
StripZeros(n, x) ==
    IF n = 0 THEN [n |-> 0, x |-> 0]
    ELSE IF n % 10 = 0 THEN StripZeros(n \div 10, x + 1)
    ELSE [n |-> n, x |-> x]

\* canonical form: at most Precision digits, no trailing zero
Norm(n, x) ==
    LET k == NumDigits(n)
    IN  IF k > Precision
        THEN StripZeros(n \div Pow10(k - Precision), x + (k - Precision))
        ELSE StripZeros(n, x)

\* the exponent of the leading digit
Top(a) == a.x + NumDigits(a.n)

\* a expressed in units of 10 ** u (digits below the unit are lost)
InUnit(a, u) ==
    IF a.n = 0 THEN 0
    ELSE IF a.x >= u THEN a.n * Pow10(a.x - u)
    ELSE IF u - a.x > Precision THEN 0
    ELSE a.n \div Pow10(u - a.x)

LinAdd(a, b) ==
    IF a.n = 0 THEN b
    ELSE IF b.n = 0 THEN a
    ELSE LET u == Max(Top(a), Top(b)) - Precision
         IN  Norm(InUnit(a, u) + InUnit(b, u), u)

LinScale(a, num, den100) == Norm(a.n * num, a.x - 2)

LinLess(a, b) ==
    IF a.n = 0 \/ b.n = 0 THEN a.n < b.n
    ELSE IF Top(a) # Top(b) THEN Top(a) < Top(b)
    ELSE LET u == Min(a.x, b.x) IN InUnit(a, u) < InUnit(b, u)

\* np.log10 of a linear value, in hundredths
LinLog10c(a) == Log10c(a.n) + 100 * a.x

\* 10 ** v for v in hundredths
TenPow(v) == LET f == Float10(v) IN Norm(f.m, f.e - 1)

LinZero == [n |-> 0, x |-> 0]

-----------------------------------------------------------------------------
(* system_simulator.py: calculate_sinr.                                    *)

\* list.sort(reverse=True): insertion into a descending list
RECURSIVE InsertDesc(_, _)
InsertDesc(v, s) ==
    IF s = <<>> THEN <<v>>
    ELSE IF LinLess(Head(s), v) THEN <<v>> \o s
    ELSE <<Head(s)>> \o InsertDesc(v, Tail(s))

RECURSIVE SortDesc(_)
SortDesc(s) == IF s = <<>> THEN <<>> ELSE InsertDesc(Head(s), SortDesc(Tail(s)))

\* s[:k]
Truncate(s, k) == SubSeq(s, 1, Min(k, Len(s)))

\* the slice kept by a version that keeps one interferer too many
StrongestFour(s) == Truncate(s, 4)

\* interference_list[:3]
StrongestThree(s) == Truncate(s, 3)

\* sum(list): left to right from 0
RECURSIVE LinSum(_, _)
LinSum(s, acc) == IF s = <<>> THEN acc ELSE LinSum(Tail(s), LinAdd(acc, Head(s)))

calculate_sinr(received_power, interference, noise, network_load) ==
    LET raw_received_power == TenPow(received_power)
        interference_list ==
            StrongestThree(SortDesc([i \in 1..Len(interference) |-> TenPow(interference[i])]))
        i_summed == LinSum(interference_list, LinZero)
        raw_sum_of_interference == LinScale(i_summed, network_load, 100)
        raw_noise == TenPow(noise)
        i_plus_n == LinAdd(raw_sum_of_interference, raw_noise)
        sinr == LinLog10c(raw_received_power) - LinLog10c(i_plus_n)
    IN  [received_power |-> received_power,
         raw_sum_of_interference |-> raw_sum_of_interference,
         noise |-> noise,
         i_plus_n |-> i_plus_n,
         sinr |-> sinr]

-----------------------------------------------------------------------------
(* path_loss.py: the process-wide generator and the log-normal draw.       *)
(* A generator state is a number below RngMod; seeding maps the seed onto  *)
(* a state, a draw reads one standard-normal deviate off the state and     *)
(* advances it.                                                            *)

RngStates == 0..(RngMod - 1)

\* the state np.random.seed(n) leaves
SeededState(n) == n % RngMod

RngNext(r) == (r + 1) % RngMod

\* the standard-normal deviate read off state r
Deviate(r) == (r % 3) - 1

FloorDiv(a, b) == IF a >= 0 THEN a \div b ELSE -((b - 1 - a) \div b)

\* a generator that np.random.seed leaves untouched
KeepState(frequency_seed_value, r) == Some(r)

\* np.random.seed(int(str(frequency_seed_value)[:2])): the state it leaves,
\* or None when int() or seed() raises ValueError.  The value is a float:
\* from 10 upwards its text starts with two digits, from 0 to 9 with a digit
\* and a point ('5.'), below 0 its first two characters give a negative seed.
Reseed(frequency_seed_value, r) ==
    IF frequency_seed_value >= 10
    THEN Some(SeededState(
            frequency_seed_value \div Pow10(NumDigits(frequency_seed_value) - 2)))
    ELSE None

\* exp(x) in hundredths, x in hundredths: 10 ** (x * log10(e))
ExpC(x) == Exp10c(200 + FloorDiv(43 * x, 100))

\* one sample of np.random.lognormal(normal_mean, normal_std) at state r
LogNormalSample(normal_mean, normal_std, r) == ExpC(normal_mean + normal_std * Deviate(r))

\* the sum of `draws` successive samples starting at state r
RECURSIVE SampleSum(_, _, _, _)
SampleSum(normal_mean, normal_std, draws, r) ==
    IF draws = 0 THEN 0
    ELSE LogNormalSample(normal_mean, normal_std, r)
         + SampleSum(normal_mean, normal_std, draws - 1, RngNext(r))

RECURSIVE Advance(_, _)
Advance(r, draws) == IF draws = 0 THEN r ELSE Advance(RngNext(r), draws - 1)

\* normal_std and normal_mean of the underlying normal distribution
NormalStd(mu, sigma) ==
    10 * Isqrt(Log10c(mu * mu * 10000 + sigma * sigma) - Log10c(mu * mu * 10000))

NormalMean(mu, normal_std) == Log10c(mu) - (normal_std * normal_std) \div 200

\* the draw once the generator has been seeded (seeded = None: seeding raised)
DrawSeeded(frequency_seed_value, mu, normal_std, draws, seeded, r) ==
    IF IsNone(seeded)
    THEN Raised("ValueError", "invalid seed for np.random.seed", frequency_seed_value, r)
    ELSE Returned(
            RoundDiv(SampleSum(NormalMean(mu, normal_std), normal_std, draws, Val(seeded)),
                     draws),
            Advance(Val(seeded), draws))

\* frequency is the frequency argument times 100 (the callers pass GHz or
\* MHz), mu a whole number, sigma in hundredths, seed_value None or Some(n)
generate_log_normal_dist_value(frequency, mu, sigma, draws, seed_value, r) ==
    IF IsNone(seed_value)
    THEN DrawSeeded(0, mu, NormalStd(mu, sigma), draws, Some(r), r)
    ELSE DrawSeeded(Val(seed_value) * frequency, mu, NormalStd(mu, sigma), draws,
                    Reseed(Val(seed_value) * frequency, r), r)

outdoor_to_indoor_path_loss(frequency, indoor, seed_value, r) ==
    IF indoor
    THEN generate_log_normal_dist_value(frequency, 12, 800, 1, seed_value, r)
    ELSE Returned(0, r)

-----------------------------------------------------------------------------
(* path_loss.py: the propagation models.  frequency is in 0.01 GHz,        *)
(* distance in metres, heights in decimetres, losses in hundredths of dB.  *)

\* log10 of (distance ** 2 + height_difference ** 2) in square metres
LogSquares(distance, dh) ==
    IF distance <= 30000
    THEN Log10c(distance * distance + (dh * dh) \div 100)
    ELSE 400 + Log10c((distance \div 100) * (distance \div 100) + (dh * dh) \div 1000000)

\* sqrt(distance ** 2 + height_difference ** 2) in metres
Distance3d(distance, dh) ==
    IF distance <= 30000
    THEN Isqrt(distance * distance + (dh * dh) \div 100)
    ELSE 100 * Isqrt((distance \div 100) * (distance \div 100) + (dh * dh) \div 1000000)

\* x ** a for x > 0, both and the result in hundredths
PowC(x, a) ==
    IF x <= 0 THEN 0 ELSE Exp10c(200 + FloorDiv(a * (Log10c(x) - 200), 100))

\* a call that fails passes the failure on, one that returns has v added
AddTo(v, outcome) ==
    IF IsRaise(outcome) THEN outcome ELSE Returned(v + outcome.value, outcome.rng)

free_space(frequency, distance, ant_height, ue_height, seed_value, iterations, r) ==
    AddTo(3240 + 10 * (LogSquares(distance, ant_height - ue_height) - 600)
               + 20 * Log10c(frequency * 10),
          generate_log_normal_dist_value(frequency * 1000, 1, 250, iterations,
                                         seed_value, r))

uma_nlos_optional(frequency, distance, ant_height, ue_height, seed_value, iterations, r) ==
    AddTo(3240 + 20 * (Log10c(frequency) - 200)
               + 30 * Log10c(Distance3d(distance, ant_height - ue_height)),
          generate_log_normal_dist_value(frequency, 1, 780, iterations, seed_value, r))

\* the tie taken the other way: free space wins when the two are equal
determine_path_loss_tie(free_space_path_loss, extended_hata_path_loss) ==
    IF extended_hata_path_loss <= free_space_path_loss
    THEN <<free_space_path_loss, "free_space_path_loss">>
    ELSE <<extended_hata_path_loss, "extended_hata_path_loss">>

determine_path_loss(free_space_path_loss, extended_hata_path_loss) ==
    IF extended_hata_path_loss < free_space_path_loss
    THEN <<free_space_path_loss, "free_space_path_loss">>
    ELSE <<extended_hata_path_loss, "extended_hata_path_loss">>

\* alpha_hm and beta_hb of the Extended Hata model
AlphaHm(mhz, hm) ==
    LET lf == Log10c(mhz)
    IN  (((110 * lf) \div 100 - 70) * Min(100, hm)) \div 10
        - ((156 * lf) \div 100 - 80)
        + Max(0, 20 * (Log10c(hm) - 200))

BetaHb(hb) == Min(0, 20 * (Log10c(hb) - Log10c(300)))

\* alpha_exponent in hundredths, for a distance below 100 km
AlphaExponent(mhz, distance, hb) ==
    IF distance <= 20000 THEN 100
    ELSE 100 + ((14 + (187 * mhz) \div 10000 + (107 * hb) \div 10000)
                * PowC(Log10c(distance) - Log10c(20000), 80)) \div 100

\* np.log10(distance) ** alpha_exponent, distance in km
LogDistancePow(distance, alpha_exponent) ==
    IF alpha_exponent = 100 THEN Log10c(distance) - 300
    ELSE PowC(Log10c(distance) - 300, alpha_exponent)

\* the frequency-banded median loss at 0.1 km and beyond; None when the
\* carrier is in no band
HataBand(mhz, distance, hm, hb, alpha_exponent) ==
    LET lf == Log10c(mhz)
        lhb == Log10c(Max(300, hb)) - 100
        common == - (1382 * lhb) \div 100
                  + ((4490 - (655 * lhb) \div 100)
                     * LogDistancePow(distance, alpha_exponent)) \div 100
                  - AlphaHm(mhz, hm) - BetaHb(hb)
    IN  IF 30 < mhz /\ mhz <= 150
        THEN Some(6960 + (262 * Log10c(150)) \div 10 - 20 * (Log10c(150) - lf) + common)
        ELSE IF 150 < mhz /\ mhz <= 1500
        THEN Some(6960 + (262 * lf) \div 10 + common)
        ELSE IF 1500 < mhz /\ mhz <= 2000
        THEN Some(4630 + (339 * lf) \div 10 + common)
        ELSE IF 2000 < mhz /\ mhz <= 4000
        THEN Some(4630 + (339 * Log10c(2000)) \div 10 + 10 * (lf - Log10c(2000)) + common)
        ELSE None

\* the suburban and rural corrections
SettlementCorrection(mhz, settlement_type) ==
    LET clamped == Min(Max(150, mhz), 2000)
        lx == Log10c(clamped) - Log10c(28)
        lc == Log10c(clamped)
    IN  IF settlement_type = "suburban" THEN - (2 * lx * lx) \div 100 - 540
        ELSE IF settlement_type = "rural"
        THEN - (478 * lc * lc) \div 10000 + (1833 * lc) \div 100 - 4094
        ELSE 0

\* part 1: the median path loss, None when the carrier is in no band
HataMedian(mhz, distance, hm, hb, settlement_type, alpha_exponent) ==
    IF distance < 40
    THEN Some(3240 + 20 * Log10c(mhz) + 10 * (LogSquares(distance, hb - hm) - 600))
    ELSE IF distance >= 100
    THEN LET band == HataBand(mhz, distance, hm, hb, alpha_exponent)
         IN  IF IsNone(band) THEN None
             ELSE Some(Val(band) + SettlementCorrection(mhz, settlement_type))
    ELSE LET l_fixed_distance_upper ==
                 3240 + 20 * Log10c(mhz) + 10 * (LogSquares(100, hb - hm) - 600)
             l_fixed_distance_lower ==
                 3240 + 20 * Log10c(mhz) + 10 * (LogSquares(40, hb - hm) - 600)
         IN  Some(l_fixed_distance_lower
                  + ((Log10c(distance) - Log10c(40))
                     * (l_fixed_distance_upper - l_fixed_distance_lower))
                    \div (Log10c(100) - Log10c(40)))

\* part 2: the standard deviation of the shadow fading in hundredths, None
\* when above_roof is needed and is neither 0 nor 1
HataSigma(distance, above_roof) ==
    IF distance <= 40 THEN Some(350)
    ELSE IF distance <= 100
    THEN IF above_roof = 1 THEN Some(350 + (8496 * (distance - 40)) \div 1000)
         ELSE IF above_roof = 0 THEN Some(350 + (13496 * (distance - 40)) \div 1000)
         ELSE None
    ELSE IF distance <= 200
    THEN IF above_roof = 1 THEN Some(1200)
         ELSE IF above_roof = 0 THEN Some(1700)
         ELSE None
    ELSE IF distance <= 600
    THEN IF above_roof = 1 THEN Some(1200 - (520 * (distance - 20)) \div 1000)
         ELSE IF above_roof = 0 THEN Some(1700 - (2000 * (distance - 20)) \div 1000)
         ELSE None
    ELSE Some(1200)

\* parts 1 and 2 joined: the first failure of the two, or the draw added to
\* the median
HataJoin(mhz, above_roof, median, sigma, iterations, seed_value, r) ==
    IF IsNone(median)
    THEN Raised("ValueError", "Carrier frequency incorrect for Extended Hata", mhz, r)
    ELSE IF IsNone(sigma)
    THEN Raised("ValueError", "Could not determine if cell is above or below roof line",
                above_roof, r)
    ELSE AddTo(Val(median),
               generate_log_normal_dist_value(mhz * 100, 1, Val(sigma), iterations,
                                              seed_value, r))

\* the distance test with exactly 100 km let through
HataOnHeightsOver(mhz, distance, hm, hb, settlement_type, above_roof, seed_value, iterations, r) ==
    IF distance > 100000
    THEN Raised("ValueError", "Distance over 100km not compliant", distance, r)
    ELSE HataJoin(mhz, above_roof,
                  HataMedian(mhz, distance, hm, hb, settlement_type,
                             AlphaExponent(mhz, distance, hb)),
                  HataSigma(distance, above_roof), iterations, seed_value, r)

HataOnHeights(mhz, distance, hm, hb, settlement_type, above_roof, seed_value, iterations, r) ==
    IF distance >= 100000
    THEN Raised("ValueError", "Distance over 100km not compliant", distance, r)
    ELSE HataJoin(mhz, above_roof,
                  HataMedian(mhz, distance, hm, hb, settlement_type,
                             AlphaExponent(mhz, distance, hb)),
                  HataSigma(distance, above_roof), iterations, seed_value, r)

\* a model that lowers the base station by the building height without line
\* of sight and by the street width for a micro cell
extended_hata_in_clutter(frequency, distance, ant_height, ant_type, building_height, street_width, settlement_type, type_of_sight, ue_height, above_roof, seed_value, iterations, r) ==
    HataOnHeights(frequency * 10, distance, Min(ant_height, ue_height),
                  Max(ant_height, ue_height)
                      - (IF type_of_sight = "nlos" THEN 10 * building_height ELSE 0)
                      - (IF ant_type = "micro" THEN 10 * street_width ELSE 0),
                  settlement_type, above_roof, seed_value, iterations, r)

extended_hata(frequency, distance, ant_height, ant_type, building_height, street_width, settlement_type, type_of_sight, ue_height, above_roof, seed_value, iterations, r) ==
    HataOnHeights(frequency * 10, distance, Min(ant_height, ue_height),
                  Max(ant_height, ue_height), settlement_type, above_roof,
                  seed_value, iterations, r)

\* the band test with 3 GHz handed to the second branch
InHataBandOpen(frequency) == 3 < frequency /\ frequency < 300

\* `if 0.03 < frequency <= 3`
InHataBand(frequency) == 3 < frequency /\ frequency <= 300

\* the second band with 6 GHz let in
InUmaBandClosed(frequency) == 300 <= frequency /\ frequency <= 600

\* `elif 3 <= frequency < 6`
InUmaBand(frequency) == 300 <= frequency /\ frequency < 600

\* determine_path_loss applied to the two outcomes
Determined(free_space_path_loss, extended_hata_path_loss) ==
    IF IsRaise(extended_hata_path_loss) THEN extended_hata_path_loss
    ELSE Returned(determine_path_loss(free_space_path_loss.value,
                                      extended_hata_path_loss.value),
                  extended_hata_path_loss.rng)

\* the first branch once free_space has been evaluated
AfterFreeSpace(free_space_path_loss, frequency, distance, ant_height, ant_type, building_height, street_width, settlement_type, type_of_sight, ue_height, above_roof, seed_value, iterations) ==
    IF IsRaise(free_space_path_loss) THEN free_space_path_loss
    ELSE Determined(free_space_path_loss,
                    extended_hata(frequency, distance, ant_height, ant_type,
                                  building_height, street_width, settlement_type,
                                  type_of_sight, ue_height, above_roof, seed_value,
                                  iterations, free_space_path_loss.rng))

\* a path loss returned under a model name
Named(path_loss, model) ==
    IF IsRaise(path_loss) THEN path_loss
    ELSE Returned(<<path_loss.value, model>>, path_loss.rng)

\* the model part of path_loss_calculator: a returned value is the pair
\* (path loss, model name)
ModelPathLoss(frequency, distance, ant_height, ant_type, building_height, street_width, settlement_type, type_of_sight, ue_height, above_roof, seed_value, iterations, r) ==
    IF InHataBand(frequency)
    THEN AfterFreeSpace(free_space(frequency, distance, ant_height, ue_height,
                                   seed_value, iterations, r),
                        frequency, distance, ant_height, ant_type, building_height,
                        street_width, settlement_type, type_of_sight, ue_height,
                        above_roof, seed_value, iterations)
    ELSE IF InUmaBand(frequency)
    THEN Named(uma_nlos_optional(frequency, distance, ant_height, ue_height,
                                 seed_value, iterations, r),
               "uma_nlos_optional")
    ELSE Raised("ValueError", "frequency of {} is NOT within correct range",
                frequency, r)

\* path_loss + outdoor_to_indoor_path_loss(...), then the rounded pair
PlusPenetration(chosen, penetration) ==
    IF IsRaise(penetration) THEN penetration
    ELSE Returned(<<chosen.value[1] + penetration.value, chosen.value[2]>>,
                  penetration.rng)

AfterModel(chosen, frequency, indoor, seed_value) ==
    IF IsRaise(chosen) THEN chosen
    ELSE PlusPenetration(chosen,
                         outdoor_to_indoor_path_loss(frequency, indoor, seed_value,
                                                     chosen.rng))

path_loss_calculator(frequency, distance, ant_height, ant_type, building_height, street_width, settlement_type, type_of_sight, ue_height, above_roof, indoor, seed_value, iterations, r) ==
    AfterModel(ModelPathLoss(frequency, distance, ant_height, ant_type,
                             building_height, street_width, settlement_type,
                             type_of_sight, ue_height, above_roof, seed_value,
                             iterations, r),
               frequency, indoor, seed_value)

-----------------------------------------------------------------------------
(* system_simulator.py: the objects of a SimulationManager.  A dict is the *)
(* sequence of its items in insertion order.                               *)

DictHas(d, k) == \E i \in 1..Len(d) : d[i].key = k

\* an assignment that puts a new key in front of the others
DictSetFront(d, k, v) ==
    IF DictHas(d, k)
    THEN [i \in 1..Len(d) |-> IF d[i].key = k THEN [key |-> k, value |-> v] ELSE d[i]]
    ELSE <<[key |-> k, value |-> v]>> \o d

\* an assignment that leaves the value of a known key as it was
DictSetDefault(d, k, v) ==
    IF DictHas(d, k) THEN d ELSE Append(d, [key |-> k, value |-> v])

\* d[k] = v: a known key keeps its place, a new key goes last
DictSet(d, k, v) ==
    IF DictHas(d, k)
    THEN [i \in 1..Len(d) |-> IF d[i].key = k THEN [key |-> k, value |-> v] ELSE d[i]]
    ELSE Append(d, [key |-> k, value |-> v])

\* d.values()
DictValues(d) == [i \in 1..Len(d) |-> d[i].value]

Transmitter(data, simulation_parameters) ==
    [id |-> data.site_id, coordinates |-> data.coordinates, ant_type |-> "macro",
     ant_height |-> simulation_parameters.tx_baseline_height,
     power |-> simulation_parameters.tx_power,
     gain |-> simulation_parameters.tx_gain,
     losses |-> simulation_parameters.tx_losses]

\* shapely's polygon.area of a closed coordinate ring (shoelace formula)
RECURSIVE Shoelace(_, _)
Shoelace(ring, i) ==
    IF i >= Len(ring) THEN 0
    ELSE ring[i][1] * ring[i + 1][2] - ring[i + 1][1] * ring[i][2] + Shoelace(ring, i + 1)

PolygonArea(ring) == Abs(Shoelace(ring, 1)) \div 2

SiteArea(data) ==
    [id |-> data.site_id, coordinates |-> data.coordinates,
     area |-> PolygonArea(data.coordinates)]

Receiver(data, simulation_parameters) ==
    [id |-> data.ue_id, coordinates |-> data.coordinates,
     misc_losses |-> data.misc_losses, gain |-> data.gain, losses |-> data.losses,
     ue_height |-> data.ue_height, indoor |-> data.indoor]

\* an interfering transmitter of a smaller cell, with 16 dB less power and
\* 11 dB less gain than the parameters give
InterferingTransmitterMicro(data, simulation_parameters) ==
    [id |-> data.site_id, coordinates |-> data.coordinates,
     ant_height |-> simulation_parameters.tx_baseline_height,
     power |-> simulation_parameters.tx_power - 1600,
     gain |-> simulation_parameters.tx_gain - 1100,
     losses |-> simulation_parameters.tx_losses]

InterferingTransmitter(data, simulation_parameters) ==
    [id |-> data.site_id, coordinates |-> data.coordinates,
     ant_height |-> simulation_parameters.tx_baseline_height,
     power |-> simulation_parameters.tx_power,
     gain |-> simulation_parameters.tx_gain,
     losses |-> simulation_parameters.tx_losses]

\* the loop of __init__ over the receiver records
RECURSIVE BuildReceivers(_, _, _)
BuildReceivers(list, simulation_parameters, acc) ==
    IF list = <<>> THEN acc
    ELSE BuildReceivers(Tail(list), simulation_parameters,
                        DictSet(acc, Head(list).ue_id,
                                Receiver(Head(list), simulation_parameters)))

\* the loop of __init__ over the interfering transmitter records
RECURSIVE BuildInterferers(_, _, _)
BuildInterferers(list, simulation_parameters, acc) ==
    IF list = <<>> THEN acc
    ELSE BuildInterferers(Tail(list), simulation_parameters,
                          DictSet(acc, Head(list).site_id,
                                  InterferingTransmitter(Head(list), simulation_parameters)))

-----------------------------------------------------------------------------
(* system_simulator.py: the link budget of one receiver.  `self` is the    *)
(* record of the manager's transmitter, site_area and                      *)
(* interfering_transmitters.                                               *)

\* LineString([a, b]).length, in metres
LineLength(a, b) ==
    IF Abs(a[1] - b[1]) <= 30000 /\ Abs(a[2] - b[2]) <= 30000
    THEN Isqrt((a[1] - b[1]) * (a[1] - b[1]) + (a[2] - b[2]) * (a[2] - b[2]))
    ELSE 100 * Isqrt(((a[1] - b[1]) \div 100) * ((a[1] - b[1]) \div 100)
                     + ((a[2] - b[2]) \div 100) * ((a[2] - b[2]) \div 100))

\* los below los_distance = 250, else nlos
TypeOfSight(strt_distance) == IF strt_distance < 250 THEN "los" ELSE "nlos"

\* the returned tuple (path_loss, model, strt_distance, type_of_sight)
Described(path_loss, strt_distance) ==
    IF IsRaise(path_loss) THEN path_loss
    ELSE Returned([path_loss |-> path_loss.value[1], model |-> path_loss.value[2],
                   strt_distance |-> strt_distance,
                   type_of_sight |-> TypeOfSight(strt_distance)],
                  path_loss.rng)

\* the path loss over strt_distance from an antenna at ant_height
PathLossOver(strt_distance, ant_height, receiver, frequency, environment, seed_value, iterations, r) ==
    Described(path_loss_calculator(frequency, strt_distance, ant_height, "macro", 20,
                                   20, environment, TypeOfSight(strt_distance),
                                   receiver.ue_height, 0, receiver.indoor, seed_value,
                                   iterations, r),
              strt_distance)

calculate_path_loss(self, receiver, frequency, environment, seed_value, iterations, r) ==
    PathLossOver(LineLength(receiver.coordinates, self.transmitter.coordinates),
                 self.transmitter.ant_height, receiver, frequency, environment,
                 seed_value, iterations, r)

\* the transmitter argument is not read: the EIRP is that of self.transmitter
calc_received_power(self, a_transmitter, receiver, path_loss) ==
    (self.transmitter.power + self.transmitter.gain - self.transmitter.losses)
    - path_loss - receiver.misc_losses + receiver.gain - receiver.losses

\* one pass of the loop over the interfering transmitters
InterferenceStep(self, acc, interfering_transmitter, receiver, path_loss) ==
    IF IsRaise(path_loss) THEN path_loss
    ELSE Returned(
            [interference |->
                 Append(acc.value.interference,
                        calc_received_power(self, interfering_transmitter, receiver,
                                            path_loss.value.path_loss)),
             model |-> Some(path_loss.value.model),
             ave_distance |-> acc.value.ave_distance + path_loss.value.strt_distance,
             ave_pl |-> acc.value.ave_pl + path_loss.value.path_loss],
            path_loss.rng)

RECURSIVE InterferenceLoop(_, _, _, _, _, _, _, _, _)
InterferenceLoop(self, its, k, receiver, frequency, environment, seed_value, iterations, acc) ==
    IF IsRaise(acc) \/ k > Len(its) THEN acc
    ELSE InterferenceLoop(self, its, k + 1, receiver, frequency, environment,
            seed_value, iterations,
            InterferenceStep(self, acc, its[k], receiver,
                PathLossOver(LineLength(receiver.coordinates, its[k].coordinates),
                             its[k].ant_height, receiver, frequency, environment,
                             seed_value, iterations, acc.rng)))

\* the two averages after the loop; dividing by no interferers raises
Averaged(acc, n) ==
    IF IsRaise(acc) THEN acc
    ELSE IF n = 0 THEN Raised("ZeroDivisionError", "division by zero", 0, acc.rng)
    ELSE Returned([interference |-> acc.value.interference,
                   model |-> Val(acc.value.model),
                   ave_distance |-> RoundDiv(acc.value.ave_distance * 100, n),
                   ave_pl |-> RoundDiv(acc.value.ave_pl, n)],
                  acc.rng)

calculate_interference(self, receiver, frequency, environment, seed_value, iterations, r) ==
    Averaged(InterferenceLoop(self, DictValues(self.interfering_transmitters), 1,
                              receiver, frequency, environment, seed_value, iterations,
                              Returned([interference |-> <<>>, model |-> None,
                                        ave_distance |-> 0, ave_pl |-> 0], r)),
             Len(self.interfering_transmitters))

\* 10 * log10(k * t * 1000) + 1.5 + 10 * log10(BW), k = 1.38e-23, t = 290
calculate_noise(bandwidth) ==
    10 * (Log10c(138 * 290 * 1000) - 2500) + 150 + 10 * Log10c(bandwidth * 1000000)

\* the pair with the capacity multiplied by the site area in km2
average_capacity_times(self, bandwidth, spectral_efficiency) ==
    <<bandwidth * spectral_efficiency,
      (bandwidth * spectral_efficiency * (self.site_area.area \div 100)) \div 10000>>

\* the pair (capacity_mbps, capacity_mbps_km2)
average_capacity(self, bandwidth, spectral_efficiency) ==
    <<bandwidth * spectral_efficiency,
      RoundDiv(bandwidth * spectral_efficiency * 10000,
               Max(1, self.site_area.area \div 100))>>

\* receiver_density: 0 without receivers; otherwise the read of self.area,
\* an attribute no SimulationManager has, raises before anything is computed
receiver_density(self_receivers, r) ==
    IF Len(self_receivers) = 0 THEN Returned(0, r)
    ELSE Raised("AttributeError", "'SimulationManager' object has no attribute 'area'",
                0, r)

\* np.log10 of a linear value: None stands for -inf
LogOrInf(a) == IF a.n = 0 THEN None ELSE Some(LinLog10c(a))

\* the dict appended to results
ResultRecord(self, receiver, call_args, path_loss, interference, sinr, spectral_efficiency) ==
    [id |-> receiver.id,
     path_loss |-> path_loss.value.path_loss,
     r_model |-> path_loss.value.model,
     type_of_sight |-> path_loss.value.type_of_sight,
     ave_inf_pl |-> interference.value.ave_pl,
     received_power |-> sinr.received_power,
     distance |-> path_loss.value.strt_distance,
     interference |-> LogOrInf(sinr.raw_sum_of_interference),
     i_model |-> interference.value.model,
     network_load |-> call_args.simulation_parameters.network_load,
     ave_distance |-> interference.value.ave_distance,
     noise |-> sinr.noise,
     i_plus_n |-> LogOrInf(sinr.i_plus_n),
     sinr |-> sinr.sinr,
     spectral_efficiency |-> spectral_efficiency,
     capacity_mbps |-> average_capacity(self, call_args.bandwidth, spectral_efficiency)[1],
     capacity_mbps_km2 |-> average_capacity(self, call_args.bandwidth, spectral_efficiency)[2],
     receiver_x |-> receiver.coordinates[1],
     receiver_y |-> receiver.coordinates[2]]

\* from the spectral efficiency on: a None efficiency fails in average_capacity
BudgetFromEfficiency(self, receiver, call_args, path_loss, interference, sinr, spectral_efficiency) ==
    IF IsNone(spectral_efficiency)
    THEN Raised("TypeError", "unsupported operand type(s) for *: 'float' and 'NoneType'",
                0, interference.rng)
    ELSE IF self.site_area.area = 0
    THEN Raised("ZeroDivisionError", "float division by zero", 0, interference.rng)
    ELSE Returned(ResultRecord(self, receiver, call_args, path_loss, interference,
                               sinr, Val(spectral_efficiency)),
                  interference.rng)

\* from the SINR on
BudgetFromSinr(self, receiver, call_args, path_loss, interference, sinr) ==
    BudgetFromEfficiency(self, receiver, call_args, path_loss, interference, sinr,
        modulation_scheme_and_coding_rate(sinr.sinr, call_args.generation,
                                          call_args.modulation_and_coding_lut))

\* from the interference on
BudgetFromInterference(self, receiver, call_args, path_loss, received_power, interference) ==
    IF IsRaise(interference) THEN interference
    ELSE BudgetFromSinr(self, receiver, call_args, path_loss, interference,
            calculate_sinr(received_power, interference.value.interference,
                           calculate_noise(call_args.bandwidth),
                           call_args.simulation_parameters.network_load))

\* from the serving path loss on
BudgetFromPathLoss(self, receiver, call_args, path_loss) ==
    IF IsRaise(path_loss) THEN path_loss
    ELSE BudgetFromInterference(self, receiver, call_args, path_loss,
            calc_received_power(self, self.transmitter, receiver,
                                path_loss.value.path_loss),
            calculate_interference(self, receiver, call_args.frequency,
                                   call_args.environment,
                                   call_args.simulation_parameters.seed_value2,
                                   call_args.simulation_parameters.iterations,
                                   path_loss.rng))

\* the body of the loop of estimate_link_budget for one receiver: the dict
\* it appends to results, or the exception that leaves it
ReceiverBudget(self, receiver, call_args, r) ==
    BudgetFromPathLoss(self, receiver, call_args,
        calculate_path_loss(self, receiver, call_args.frequency, call_args.environment,
                            call_args.simulation_parameters.seed_value1,
                            call_args.simulation_parameters.iterations, r))

-----------------------------------------------------------------------------
(* The simulator at rest: the values the simulator variables hold while a  *)
(* library function is exercised on its own.                               *)

SimAtRest ==
    /\ transmitter = None
    /\ site_area = None
    /\ receivers = <<>>
    /\ interfering_transmitters = <<>>
    /\ call = None
    /\ pc = "idle"
    /\ results = <<>>
    /\ error = None

-----------------------------------------------------------------------------
(* Specification of the modulation lookup on its own.                      *)

Generations == {"4G", "5G"}

SinrThresholds == {0, 300, 600}

SinrValues == {-100, 0, 200, 300, 400, 600, 700}

\* the spectral efficiency of the entry of generation g at threshold s
EntrySE(g, s) == (IF g = "4G" THEN 10 ELSE 15) + s \div 10

LutEntries == {<<g, 1, "QPSK", 78, EntrySE(g, s), s>> : g \in Generations, s \in SinrThresholds}

\* the entries of one generation, in table order
RECURSIVE OfGeneration(_, _)
OfGeneration(lut, g) ==
    IF lut = <<>> THEN <<>>
    ELSE IF Head(lut)[1] = g THEN <<Head(lut)>> \o OfGeneration(Tail(lut), g)
    ELSE OfGeneration(Tail(lut), g)

\* data-model invariant: ascending by SINR threshold within each generation
SortedWithinGenerations(lut) ==
    \A i, j \in 1..Len(lut) :
        (i < j /\ lut[i][1] = lut[j][1]) => lut[i][6] <= lut[j][6]

\* each generation's entries form one block of the table, as in the runner's table
GenerationsInBlocks(lut) ==
    \A i, j, k \in 1..Len(lut) :
        (i < j /\ j < k /\ lut[i][1] = lut[k][1]) => lut[j][1] = lut[i][1]

LutTables ==
    {t \in UNION {[1..n -> LutEntries] : n \in 0..MaxLutLen} :
        SortedWithinGenerations(t) /\ GenerationsInBlocks(t)}

InitMCS ==
    /\ SimAtRest
    /\ rng = 0
    /\ fn = "none"
    /\ \E t \in LutTables : input = [modulation_and_coding_lut |-> t]
    /\ output = None
    /\ first = None

CallModulation ==
    \E sinr \in SinrValues, generation \in Generations :
        /\ fn' = "modulation_scheme_and_coding_rate"
        /\ input' = [modulation_and_coding_lut |-> input.modulation_and_coding_lut,
                     sinr |-> sinr, generation |-> generation]
        /\ output' = modulation_scheme_and_coding_rate(
                         sinr, generation, input.modulation_and_coding_lut)
        /\ UNCHANGED <<simvars, rng, first>>

NextMCS == CallModulation

SpecMCS == InitMCS /\ [][NextMCS]_vars

\* the call just made, seen through the requested generation's entries
McsCalled == fn = "modulation_scheme_and_coding_rate"

McsOwn == OfGeneration(input.modulation_and_coding_lut, input.generation)

\* C2: a SINR bracketed by two adjacent entries of the requested generation
\* (lower.sinr <= sinr < upper.sinr) yields the lower entry's spectral
\* efficiency.
C2_BracketGivesLower ==
    McsCalled =>
        \A i \in 1..(Len(McsOwn) - 1) :
            (McsOwn[i][6] <= input.sinr /\ input.sinr < McsOwn[i + 1][6])
                => output = Some(McsOwn[i][5])

\* C3: a SINR at or above the highest threshold of the requested generation
\* yields the spectral efficiency of that generation's highest entry.
C3_SaturatesAtHighest ==
    McsCalled =>
        ((Len(McsOwn) > 0 /\ input.sinr >= McsOwn[Len(McsOwn)][6])
            => output = Some(McsOwn[Len(McsOwn)][5]))

\* C4: a SINR below the lowest threshold of the requested generation yields
\* a spectral efficiency of 0.
C4_BelowLowestGivesZero ==
    McsCalled =>
        ((Len(McsOwn) > 0 /\ input.sinr < McsOwn[1][6]) => output = Some(0))

-----------------------------------------------------------------------------
(* Specification of calculate_sinr on its own: the interference list of a  *)
(* call is then edited one value at a time and the SINR recomputed.        *)

InterferenceValues == {-7788, -6550, -6400}

ReceivedPowers == {-4844}

NoiseValues == {-10248, -6500}

NetworkLoads == {50, 100}

SinrOf(args) ==
    calculate_sinr(args.received_power, args.interference, args.noise, args.network_load)

InitSINR ==
    /\ SimAtRest
    /\ rng = 0
    /\ fn = "none"
    /\ \E rp \in ReceivedPowers, noise \in NoiseValues, load \in NetworkLoads,
          n \in 0..MaxInterference :
          \E interference \in [1..n -> InterferenceValues] :
              input = [received_power |-> rp, interference |-> interference,
                       noise |-> noise, network_load |-> load]
    /\ output = None
    /\ first = None

CallSinr ==
    /\ fn = "none"
    /\ fn' = "calculate_sinr"
    /\ output' = SinrOf(input)
    /\ UNCHANGED <<simvars, rng, input, first>>

\* the same call with one more interference value
AddInterference ==
    /\ fn = "calculate_sinr"
    /\ Len(input.interference) < MaxInterference
    /\ \E v \in InterferenceValues :
          input' = [input EXCEPT !.interference = Append(@, v)]
    /\ output' = SinrOf(input')
    /\ UNCHANGED <<simvars, rng, fn, first>>

\* the same call with one interference value removed
RemoveInterference ==
    /\ fn = "calculate_sinr"
    /\ \E i \in 1..Len(input.interference) :
          input' = [input EXCEPT !.interference =
                        SubSeq(@, 1, i - 1) \o SubSeq(@, i + 1, Len(@))]
    /\ output' = SinrOf(input')
    /\ UNCHANGED <<simvars, rng, fn, first>>

\* the same call with one interference value changed
ChangeInterference ==
    /\ fn = "calculate_sinr"
    /\ \E i \in 1..Len(input.interference), v \in InterferenceValues :
          /\ v # input.interference[i]
          /\ input' = [input EXCEPT !.interference[i] = v]
    /\ output' = SinrOf(input')
    /\ UNCHANGED <<simvars, rng, fn, first>>

NextSINR == CallSinr \/ AddInterference \/ RemoveInterference \/ ChangeInterference

SpecSINR == InitSINR /\ [][NextSINR]_vars

\* position i of list l is outside the three largest: three other positions
\* hold values at least as large
OutsideTopThree(l, i) ==
    Cardinality({j \in 1..Len(l) : j # i /\ l[j] >= l[i]}) >= 3

Without(l, i) == SubSeq(l, 1, i - 1) \o SubSeq(l, i + 1, Len(l))

\* m is l with a value outside the three largest changed, added or removed
EditOutsideTopThree(l, m) ==
    \/ /\ Len(m) = Len(l)
       /\ \E i \in 1..Len(l) :
             /\ m # l
             /\ \A j \in 1..Len(l) : j # i => m[j] = l[j]
             /\ OutsideTopThree(l, i)
             /\ OutsideTopThree(m, i)
    \/ /\ Len(m) = Len(l) + 1
       /\ \E i \in 1..Len(m) : Without(m, i) = l /\ OutsideTopThree(m, i)
    \/ /\ Len(l) = Len(m) + 1
       /\ \E i \in 1..Len(l) : Without(l, i) = m /\ OutsideTopThree(l, i)

SinrRecomputed ==
    /\ fn = "calculate_sinr"
    /\ fn' = "calculate_sinr"
    /\ input'.received_power = input.received_power
    /\ input'.noise = input.noise
    /\ input'.network_load = input.network_load

\* C5: only the three largest interference values count: changing, adding or
\* removing a value that is not among the three largest changes neither the
\* returned interference sum nor the SINR.
C5_OnlyThreeLargestCount ==
    [][(SinrRecomputed /\ EditOutsideTopThree(input.interference, input'.interference))
        => /\ output'.raw_sum_of_interference = output.raw_sum_of_interference
           /\ output'.sinr = output.sinr]_vars

\* a SINR computed from more than three interference values, at least one of
\* them strictly below the third largest
C5_Witness ==
    /\ fn = "calculate_sinr"
    /\ Len(input.interference) >= 4
    /\ \E i \in 1..Len(input.interference) :
          /\ OutsideTopThree(input.interference, i)
          /\ Cardinality({j \in 1..Len(input.interference) :
                 input.interference[j] > input.interference[i]}) >= 3
    /\ output.raw_sum_of_interference.n > 0

-----------------------------------------------------------------------------
(* Specification of the path-loss library on its own.                      *)

Frequencies == {3, 4, 70, 180, 300, 350, 599, 600}

Distances == {30, 60, 150, 500, 1000, 50000, 100000}

AntHeights == {300}

UeHeights == {15}

Settlements == {"urban", "suburban", "rural"}

Sights == {"los", "nlos"}

Seeds == {None, Some(1), Some(42)}

Iterations == {1, 2}

LossValues == {9000, 10000, 20000}

PathLossOf(a) ==
    path_loss_calculator(a.frequency, a.distance, a.ant_height, a.ant_type,
                         a.building_height, a.street_width, a.settlement_type,
                         a.type_of_sight, a.ue_height, a.above_roof, a.indoor,
                         a.seed_value, a.iterations, a.rng)

InitPL ==
    /\ SimAtRest
    /\ rng \in RngStates
    /\ fn = "none"
    /\ input = None
    /\ output = None
    /\ first = None

CallPathLossCalculator ==
    \E frequency \in Frequencies, distance \in Distances, ant_height \in AntHeights,
       settlement_type \in Settlements, type_of_sight \in Sights,
       ue_height \in UeHeights, above_roof \in {0, 1}, indoor \in BOOLEAN,
       seed_value \in Seeds, iterations \in Iterations :
        /\ fn = "none"
        /\ fn' = "path_loss_calculator"
        /\ input' = [frequency |-> frequency, distance |-> distance,
                     ant_height |-> ant_height, ant_type |-> "macro",
                     building_height |-> 20, street_width |-> 20,
                     settlement_type |-> settlement_type,
                     type_of_sight |-> type_of_sight, ue_height |-> ue_height,
                     above_roof |-> above_roof, indoor |-> indoor,
                     seed_value |-> seed_value, iterations |-> iterations,
                     rng |-> rng]
        /\ output' = PathLossOf(input')
        /\ rng' = output'.rng
        /\ UNCHANGED <<simvars, first>>

CallDeterminePathLoss ==
    \E free_space_path_loss \in LossValues, extended_hata_path_loss \in LossValues :
        /\ fn = "none"
        /\ fn' = "determine_path_loss"
        /\ input' = [free_space_path_loss |-> free_space_path_loss,
                     extended_hata_path_loss |-> extended_hata_path_loss]
        /\ output' = Returned(determine_path_loss(free_space_path_loss,
                                                  extended_hata_path_loss), rng)
        /\ UNCHANGED <<simvars, rng, first>>

HataFrequencies == {2, 3, 70, 180, 400, 450}

HataDistances == {30, 40, 60, 100, 150, 500, 700, 99999, 100000, 120000}

\* 2 stands for every value that is neither 0 nor 1
AboveRoofs == {0, 1, 2}

ExtendedHataOf(a) ==
    extended_hata(a.frequency, a.distance, a.ant_height, a.ant_type, a.building_height,
                  a.street_width, a.settlement_type, a.type_of_sight, a.ue_height,
                  a.above_roof, a.seed_value, a.iterations, a.rng)

CallExtendedHata ==
    \E frequency \in HataFrequencies, distance \in HataDistances,
       ant_height \in AntHeights, settlement_type \in Settlements,
       ue_height \in UeHeights, above_roof \in AboveRoofs, seed_value \in Seeds :
        /\ fn = "none"
        /\ fn' = "extended_hata"
        /\ input' = [frequency |-> frequency, distance |-> distance,
                     ant_height |-> ant_height, ant_type |-> "macro",
                     building_height |-> 20, street_width |-> 20,
                     settlement_type |-> settlement_type, type_of_sight |-> "nlos",
                     ue_height |-> ue_height, above_roof |-> above_roof,
                     seed_value |-> seed_value, iterations |-> 1, rng |-> rng]
        /\ output' = ExtendedHataOf(input')
        /\ rng' = output'.rng
        /\ UNCHANGED <<simvars, first>>

NextPL == CallPathLossCalculator \/ CallDeterminePathLoss \/ CallExtendedHata

SpecPL == InitPL /\ [][NextPL]_vars

\* what free_space and extended_hata return inside the call just made
FreeSpaceInCall ==
    free_space(input.frequency, input.distance, input.ant_height, input.ue_height,
               input.seed_value, input.iterations, input.rng)

ExtendedHataInCall ==
    extended_hata(input.frequency, input.distance, input.ant_height, input.ant_type,
                  input.building_height, input.street_width, input.settlement_type,
                  input.type_of_sight, input.ue_height, input.above_roof,
                  input.seed_value, input.iterations, FreeSpaceInCall.rng)

FrequencyError(o) ==
    /\ IsRaise(o)
    /\ o.type = "ValueError"
    /\ o.msg = "frequency of {} is NOT within correct range"

\* C6: for 0.03 < frequency <= 3 GHz the chosen path loss is never below the
\* free-space value; determine_path_loss returns the larger of the two values,
\* named free_space_path_loss when the free-space value was selected and
\* extended_hata_path_loss when the extended-Hata value was (also on a tie).
C6_FreeSpaceIsFloor ==
    /\ fn = "determine_path_loss" =>
          LET fs == input.free_space_path_loss
              eh == input.extended_hata_path_loss
          IN  /\ output.value[1] = Max(fs, eh)
              /\ output.value[2] =
                    (IF fs > eh THEN "free_space_path_loss" ELSE "extended_hata_path_loss")
    /\ (fn = "path_loss_calculator" /\ 3 < input.frequency /\ input.frequency <= 300
            /\ IsReturn(output)) =>
          /\ output.value[1] >= FreeSpaceInCall.value
          /\ output.value[1] >= ExtendedHataInCall.value
          /\ output.value[2] = "free_space_path_loss"
                => FreeSpaceInCall.value > ExtendedHataInCall.value
          /\ output.value[2] = "extended_hata_path_loss"
                => ExtendedHataInCall.value >= FreeSpaceInCall.value
          /\ output.value[2] \in {"free_space_path_loss", "extended_hata_path_loss"}

\* both names are produced, by determine_path_loss and by the calculator
C6_Witness ==
    /\ fn = "path_loss_calculator"
    /\ IsReturn(output)
    /\ output.value[2] = "free_space_path_loss"
    /\ input.frequency <= 300

\* C7: path_loss_calculator raises the ValueError naming the frequency for
\* every frequency <= 0.03 GHz or >= 6 GHz, drawing nothing, and raises no
\* frequency-range error for 0.03 < frequency < 6 GHz.
C7_FrequencyRangeError ==
    fn = "path_loss_calculator" =>
        IF input.frequency <= 3 \/ input.frequency >= 600
        THEN /\ FrequencyError(output)
             /\ output.arg = input.frequency
             /\ output.rng = input.rng
             /\ rng = input.rng
        ELSE ~FrequencyError(output)

C7_Witness ==
    /\ fn = "path_loss_calculator"
    /\ input.frequency = 600
    /\ FrequencyError(output)
    /\ ~IsNone(input.seed_value)

\* C8 as stated: for 3 <= frequency < 6 GHz, 3 GHz included, the model name
\* returned is uma_nlos_optional.
C8_UmaFromThreeGHz ==
    (fn = "path_loss_calculator" /\ 300 <= input.frequency /\ input.frequency < 600
        /\ IsReturn(output))
        => output.value[2] = "uma_nlos_optional"

UmaInCall ==
    uma_nlos_optional(input.frequency, input.distance, input.ant_height,
                      input.ue_height, input.seed_value, input.iterations, input.rng)

\* C8 amended: for 3 < frequency < 6 GHz a returning call gives the
\* UMa-NLOS-optional value (plus the indoor penetration loss) under the name
\* uma_nlos_optional; at exactly 3 GHz the first branch applies and the name
\* is one of the free-space / extended-Hata names.
C8_UmaAboveThreeGHz ==
    (fn = "path_loss_calculator" /\ IsReturn(output)) =>
        /\ (300 < input.frequency /\ input.frequency < 600) =>
              /\ output.value[2] = "uma_nlos_optional"
              /\ output.value[1] =
                    UmaInCall.value
                    + outdoor_to_indoor_path_loss(input.frequency, input.indoor,
                                                  input.seed_value, UmaInCall.rng).value
        /\ input.frequency = 300 =>
              output.value[2] \in {"free_space_path_loss", "extended_hata_path_loss"}

C8_Witness ==
    /\ fn = "path_loss_calculator"
    /\ IsReturn(output)
    /\ input.frequency = 350
    /\ input.indoor
    /\ output.value[2] = "uma_nlos_optional"

-----------------------------------------------------------------------------
(* Specification of the log-normal draw on its own: draws with and without *)
(* a seed and reseeds of the generator by other code, in any order.        *)

DrawFrequencies == {70, 70000, 350}

DrawMoments == {<<1, 250>>, <<12, 800>>}

DrawOf(a) ==
    generate_log_normal_dist_value(a.frequency, a.mu, a.sigma, a.draws,
                                   a.seed_value, a.rng)

SameDraw(a, b) ==
    /\ a.frequency = b.frequency
    /\ a.mu = b.mu
    /\ a.sigma = b.sigma
    /\ a.draws = b.draws
    /\ a.seed_value = b.seed_value

InitDraw ==
    /\ SimAtRest
    /\ rng \in RngStates
    /\ fn = "none"
    /\ input = None
    /\ output = None
    /\ first = None

\* a draw; the first seeded one is kept for comparison with later ones
CallDraw ==
    \E frequency \in DrawFrequencies, moments \in DrawMoments,
       draws \in Iterations, seed_value \in Seeds :
        /\ fn' = "generate_log_normal_dist_value"
        /\ input' = [frequency |-> frequency, mu |-> moments[1], sigma |-> moments[2],
                     draws |-> draws, seed_value |-> seed_value, rng |-> rng]
        /\ output' = DrawOf(input')
        /\ rng' = output'.rng
        /\ first' = IF IsNone(first) /\ ~IsNone(seed_value)
                    THEN Some([input |-> input', output |-> output'])
                    ELSE first
        /\ UNCHANGED simvars

\* np.random.seed(n) called by other code (system_simulator.py seeds with 42)
SeedGenerator ==
    \E n \in {0, 42} :
        /\ rng' = SeededState(n)
        /\ UNCHANGED <<simvars, fn, input, output, first>>

NextDraw == CallDraw \/ SeedGenerator

SpecDraw == InitDraw /\ [][NextDraw]_vars

\* C9: a draw repeated with the same non-None seed and the same frequency,
\* mu, sigma and number of draws returns the same value, whatever draws or
\* reseeds happened in between.
C9_SeededDrawRepeats ==
    (fn = "generate_log_normal_dist_value" /\ ~IsNone(first)
        /\ SameDraw(input, Val(first).input))
        => /\ output.kind = Val(first).output.kind
           /\ IsReturn(output) => output.value = Val(first).output.value

\* the repeated draw found the generator in another state than the first did
C9_Witness ==
    /\ fn = "generate_log_normal_dist_value"
    /\ ~IsNone(first)
    /\ SameDraw(input, Val(first).input)
    /\ input.rng # Val(first).input.rng
    /\ IsReturn(output)

-----------------------------------------------------------------------------
(* The simulator: a SimulationManager built from its constructor's         *)
(* arguments (kept in `input`), and calls of estimate_link_budget taken    *)
(* one receiver at a time.                                                 *)

TransmitterData == [site_id |-> "site", coordinates |-> <<0, 0>>]

SiteAreaData ==
    [site_id |-> "site",
     coordinates |-> <<<<-250, -250>>, <<250, -250>>, <<250, 250>>, <<-250, 250>>,
                       <<-250, -250>>>>]

ReceiverData(ue_id, coordinates, indoor) ==
    [ue_id |-> ue_id, coordinates |-> coordinates, misc_losses |-> 400, gain |-> 400,
     losses |-> 400, ue_height |-> 15, indoor |-> indoor]

ReceiverPool ==
    {ReceiverData("a", <<30, 40>>, FALSE), ReceiverData("a", <<300, 400>>, TRUE),
     ReceiverData("c", <<0, 120000>>, FALSE)}

InterfererPool ==
    {[site_id |-> "east", coordinates |-> <<1000, 0>>],
     [site_id |-> "far", coordinates |-> <<0, -150000>>]}

SeqsUpTo(S, n) == UNION {[1..k -> S] : k \in 0..n}

ReceiverLists == SeqsUpTo(ReceiverPool, MaxReceivers)

InterfererLists == SeqsUpTo(InterfererPool, MaxInterferers)

\* the keys the constructor reads
ConstructorParameters ==
    [tx_baseline_height : {300}, tx_power : {4000}, tx_gain : {1600}, tx_losses : {100}]

\* the keys estimate_link_budget reads
SimulationParameters ==
    [seed_value1 : {None, Some(1)}, seed_value2 : {None, Some(2)}, iterations : {1},
     network_load : {50}]

CallFrequencies == {70, 350, 600}

MastHeights == {300, 400}

\* the generations asked for: one of the table, one the table does not hold
CallGenerations == {"5G", "3G"}

SimulatorLut ==
    <<<<"4G", 1, "QPSK", 78, 15, -670>>, <<"4G", 7, "16QAM", 378, 148, 240>>,
      <<"5G", 1, "QPSK", 78, 15, -670>>, <<"5G", 7, "16QAM", 378, 151, 240>>>>

\* the state after SimulationManager(transmitter, interfering_transmitters,
\* receivers, site_area, simulation_parameters)
Constructed(args) ==
    /\ transmitter = Transmitter(args.transmitter, args.simulation_parameters)
    /\ site_area = SiteArea(args.site_area)
    /\ receivers = BuildReceivers(args.receivers, args.simulation_parameters, <<>>)
    /\ interfering_transmitters =
           BuildInterferers(args.interfering_transmitters, args.simulation_parameters, <<>>)

Init ==
    /\ input \in [transmitter : {TransmitterData},
                  interfering_transmitters : InterfererLists,
                  receivers : ReceiverLists,
                  site_area : {SiteAreaData},
                  simulation_parameters : ConstructorParameters]
    /\ Constructed(input)
    /\ call = None
    /\ pc = "idle"
    /\ results = <<>>
    /\ error = None
    /\ rng \in RngStates
    /\ fn = "none"
    /\ output = None
    /\ first = None

Self == [transmitter |-> transmitter, site_area |-> site_area, interfering_transmitters |-> interfering_transmitters]

\* estimate_link_budget is entered: results = [] and the loop is ahead
EstimateLinkBudget ==
    /\ pc \in {"idle", "returned", "raised"}
    /\ \E frequency \in CallFrequencies, mast_height \in MastHeights,
          generation \in CallGenerations,
          simulation_parameters \in SimulationParameters :
          call' = Some([frequency |-> frequency, bandwidth |-> 10, generation |-> generation,
                        mast_height |-> mast_height, environment |-> "urban",
                        modulation_and_coding_lut |-> SimulatorLut,
                        simulation_parameters |-> simulation_parameters])
    /\ pc' = "loop"
    /\ results' = <<>>
    /\ error' = None
    /\ UNCHANGED <<transmitter, site_area, receivers, interfering_transmitters, rng, fn, input, output, first>>

\* a pass whose exception is swallowed: the loop goes on to return what it has
ProcessedSwallowing(outcome) ==
    /\ rng' = outcome.rng
    /\ results' = IF IsReturn(outcome) THEN Append(results, outcome.value) ELSE results
    /\ pc' = IF IsReturn(outcome) THEN pc ELSE "returned"
    /\ UNCHANGED <<error, transmitter, site_area, receivers, interfering_transmitters, call>>

\* a pass that leaves the interfering transmitters in another order, as a sort
\* in place of the shared map would
ProcessedReordering(outcome) ==
    /\ rng' = outcome.rng
    /\ interfering_transmitters' =
           [i \in 1..Len(interfering_transmitters) |->
               interfering_transmitters[Len(interfering_transmitters) + 1 - i]]
    /\ IF IsReturn(outcome)
       THEN /\ results' = Append(results, outcome.value)
            /\ UNCHANGED <<pc, error>>
       ELSE /\ results' = <<>>
            /\ pc' = "raised"
            /\ error' = Some([type |-> outcome.type, msg |-> outcome.msg])
    /\ UNCHANGED <<transmitter, site_area, receivers, call>>

\* what one pass of the loop leaves behind: the generator's state and the
\* record or the exception; no statement of the pass assigns to an attribute
\* of the manager or of its entities, or to an argument of the call
Processed(outcome) ==
    /\ rng' = outcome.rng
    /\ IF IsReturn(outcome)
       THEN /\ results' = Append(results, outcome.value)
            /\ UNCHANGED <<pc, error>>
       ELSE /\ results' = <<>>
            /\ pc' = "raised"
            /\ error' = Some([type |-> outcome.type, msg |-> outcome.msg])
    /\ UNCHANGED <<transmitter, site_area, receivers, interfering_transmitters, call>>

\* one pass of the loop: the next receiver of self.receivers.values()
ProcessReceiver ==
    /\ pc = "loop"
    /\ Len(results) < Len(receivers)
    /\ Processed(ReceiverBudget(Self, DictValues(receivers)[Len(results) + 1], Val(call), rng))
    /\ UNCHANGED <<fn, input, output, first>>

\* return results
ReturnResults ==
    /\ pc = "loop"
    /\ Len(results) = Len(receivers)
    /\ pc' = "returned"
    /\ UNCHANGED <<transmitter, site_area, receivers, interfering_transmitters, call, results, error, rng, fn, input, output, first>>

Next == EstimateLinkBudget \/ ProcessReceiver \/ ReturnResults

Spec == Init /\ [][Next]_vars

-----------------------------------------------------------------------------
(* Claims about estimate_link_budget                                       *)

\* the ue_ids of the constructor's receiver records are pairwise distinct
DistinctUeIds ==
    \A i, j \in 1..Len(input.receivers) :
        input.receivers[i].ue_id = input.receivers[j].ue_id => i = j

\* C1: when estimate_link_budget returns and the constructor's receivers had
\* pairwise distinct ue_ids, results holds exactly one record per receiver,
\* and the ids of the records are the ue_ids in the order the constructor was
\* given them.
C1_OneResultPerReceiverInOrder ==
    (pc = "returned" /\ DistinctUeIds)
        => /\ Len(results) = Len(input.receivers)
           /\ \A i \in 1..Len(results) : results[i].id = input.receivers[i].ue_id

\* a call has returned records for two receivers with different ue_ids
C1_Witness ==
    /\ pc = "returned"
    /\ DistinctUeIds
    /\ Len(results) = 2
    /\ results[1].id # results[2].id

\* the record of the i-th receiver, were its pass started from generator state r
Alone(i, r) == ReceiverBudget(Self, DictValues(receivers)[i], Val(call), r)

\* the i-th record of results is what the i-th receiver's pass yields from
\* every state of the generator
OwnResult(i) ==
    \A r \in RngStates : IsReturn(Alone(i, r)) /\ Alone(i, r).value = results[i]

\* C10 as stated: every record of results is a function of its receiver and
\* of the call's fixed inputs alone, whatever the seeds, so that the passes
\* made for other receivers before it make no difference.
C10_ResultsIndependent ==
    pc \in {"loop", "returned"} => \A i \in 1..Len(results) : OwnResult(i)

\* C10 amended: when seed_value1 is not None, every record of results is a
\* function of its receiver and of the call's fixed inputs alone, so that the
\* passes made for other receivers before it make no difference.
C10_SeededResultsIndependent ==
    (pc \in {"loop", "returned"} /\ ~IsNone(Val(call).simulation_parameters.seed_value1))
        => \A i \in 1..Len(results) : OwnResult(i)

\* a seeded call has returned the records of two receivers
C10_Witness ==
    /\ pc = "returned"
    /\ ~IsNone(Val(call).simulation_parameters.seed_value1)
    /\ Len(results) = 2
    /\ OwnResult(2)

\* the serving path loss of the pass that is next in the loop
ServingNext ==
    calculate_path_loss(Self, DictValues(receivers)[Len(results) + 1],
                        Val(call).frequency, Val(call).environment,
                        Val(call).simulation_parameters.seed_value1,
                        Val(call).simulation_parameters.iterations, rng)

\* the interference of the pass that is next in the loop, after its serving
\* path loss left the generator in state r
InterferenceNext(r) ==
    calculate_interference(Self, DictValues(receivers)[Len(results) + 1],
                           Val(call).frequency, Val(call).environment,
                           Val(call).simulation_parameters.seed_value2,
                           Val(call).simulation_parameters.iterations, r)

\* the exception as the caller sees it
Seen(outcome) == Some([type |-> outcome.type, msg |-> outcome.msg])

\* the path-loss library raises (a ValueError) in the pass that is next, for
\* the serving link or for an interfering transmitter
PathLossRaisesNext(outcome) ==
    /\ pc = "loop"
    /\ Len(results) < Len(receivers)
    /\ IsRaise(outcome)
    /\ outcome.type = "ValueError"

\* the caller gets the exception and no list
Propagated(outcome) == pc' = "raised" /\ results' = <<>> /\ error' = Seen(outcome)

\* C11: if the path-loss library raises while a receiver is being processed,
\* for the serving link or for any interfering transmitter, the call ends
\* with that error and no result list, the records of the receivers processed
\* before included.
C11_PathLossErrorPropagates ==
    [][/\ PathLossRaisesNext(ServingNext) => Propagated(ServingNext)
       /\ (pc = "loop" /\ Len(results) < Len(receivers) /\ IsReturn(ServingNext)
           /\ PathLossRaisesNext(InterferenceNext(ServingNext.rng)))
              => Propagated(InterferenceNext(ServingNext.rng))]_vars

\* a seeded call over two receivers ended with a ValueError of the path-loss
\* library in the second pass, the first receiver's pass being one that
\* yields a record
C11_Witness ==
    /\ pc = "raised"
    /\ Val(error).type = "ValueError"
    /\ results = <<>>
    /\ Len(receivers) = 2
    /\ ~IsNone(Val(call).simulation_parameters.seed_value1)
    /\ IsReturn(Alone(1, rng))

\* C12: with no interfering transmitters estimate_link_budget does not fail
\* with a division by zero: a call that has ended has returned one record per
\* receiver, with the average interferer distance and path loss reported as 0.
C12_NoInterferersNoDivisionByZero ==
    (Len(interfering_transmitters) = 0 /\ pc \in {"returned", "raised"})
        => /\ pc = "raised" => Val(error).type # "ZeroDivisionError"
           /\ pc = "returned"
                  => /\ Len(results) = Len(receivers)
                     /\ \A i \in 1..Len(results) :
                            results[i].ave_distance = 0 /\ results[i].ave_inf_pl = 0

-----------------------------------------------------------------------------
(* Claims about the errors of extended_hata                                *)

\* extended_hata was called and raised a ValueError with this message
HataRaised(msg) ==
    fn = "extended_hata" /\ IsRaise(output) /\ output.type = "ValueError" /\ output.msg = msg

\* C13: extended_hata raises ValueError 'Distance over 100km not compliant'
\* for every distance of 100 km or more, exactly 100000 m included, and for
\* no distance below 100 km.
C13_DistanceErrorFromHundredKm ==
    fn = "extended_hata"
        => (HataRaised("Distance over 100km not compliant") <=> input.distance >= 100000)

\* the call at exactly 100000 m raised the distance error
C13_Witness ==
    HataRaised("Distance over 100km not compliant") /\ input.distance = 100000

\* C14: extended_hata raises ValueError 'Could not determine if cell is above
\* or below roof line' whenever above_roof is neither 0 nor 1, at every
\* distance below 100 km.
C14_RoofErrorAtEveryDistance ==
    (fn = "extended_hata" /\ input.above_roof \notin {0, 1} /\ input.distance < 100000)
        => HataRaised("Could not determine if cell is above or below roof line")

\* C15: extended_hata raises ValueError 'Carrier frequency incorrect for
\* Extended Hata' for every carrier frequency outside 30-4000 MHz, at every
\* distance below 100 km.
C15_CarrierErrorAtEveryDistance ==
    (/\ fn = "extended_hata"
     /\ (input.frequency * 10 < 30 \/ input.frequency * 10 > 4000)
     /\ input.distance < 100000)
        => HataRaised("Carrier frequency incorrect for Extended Hata")

-----------------------------------------------------------------------------
(* average_capacity on its own: a manager whose site area is a rectangle,  *)
(* a call of average_capacity, and the same call on a manager built with a *)
(* site area twice as wide.                                                *)

Widths == {100, 200, 500, 1000}

Depths == {100, 500}

Bandwidths == {5, 10, 20}

Efficiencies == {0, 15, 151, 390, 740}

RectangleData(w, h) ==
    [site_id |-> "site",
     coordinates |-> <<<<0, 0>>, <<w, 0>>, <<w, h>>, <<0, h>>, <<0, 0>>>>]

InitCapacity ==
    /\ transmitter = None
    /\ \E w \in Widths, h \in Depths, list \in ReceiverLists :
          /\ input = [width |-> w, depth |-> h, receivers |-> list]
          /\ site_area = SiteArea(RectangleData(w, h))
          /\ receivers = BuildReceivers(list, [tx_baseline_height |-> 300], <<>>)
    /\ interfering_transmitters = <<>>
    /\ call = None
    /\ pc = "idle"
    /\ results = <<>>
    /\ error = None
    /\ rng = SeededState(42)
    /\ fn = "none"
    /\ output = None
    /\ first = None

CallAverageCapacity ==
    \E bandwidth \in Bandwidths, spectral_efficiency \in Efficiencies :
        /\ fn = "none"
        /\ fn' = "average_capacity"
        /\ call' = Some([bandwidth |-> bandwidth,
                         spectral_efficiency |-> spectral_efficiency])
        /\ output' = average_capacity(Self, bandwidth, spectral_efficiency)
        /\ UNCHANGED <<transmitter, site_area, receivers, interfering_transmitters, pc, results, error, rng, input, first>>

\* the same call on a manager whose site area is twice as large; the first
\* call's pair is kept in `first`
CallOnDoubledArea ==
    /\ fn = "average_capacity"
    /\ first = None
    /\ first' = Some(output)
    /\ input' = [input EXCEPT !.width = 2 * input.width]
    /\ site_area' = SiteArea(RectangleData(2 * input.width, input.depth))
    /\ output' = average_capacity([Self EXCEPT !.site_area = site_area'],
                                  Val(call).bandwidth, Val(call).spectral_efficiency)
    /\ UNCHANGED <<transmitter, receivers, interfering_transmitters, call, pc, results, error, rng, fn>>

CallReceiverDensity ==
    /\ fn = "none"
    /\ fn' = "receiver_density"
    /\ output' = receiver_density(receivers, rng)
    /\ UNCHANGED <<simvars, rng, input, first>>

NextCapacity == CallAverageCapacity \/ CallOnDoubledArea \/ CallReceiverDensity

SpecCapacity == InitCapacity /\ [][NextCapacity]_vars

\* C16: average_capacity returns capacity_mbps = bandwidth x spectral
\* efficiency and capacity_mbps_km2 = capacity_mbps / (site area in km2), to
\* the hundredth; with bandwidth and spectral efficiency fixed, doubling the
\* site area leaves capacity_mbps unchanged and halves capacity_mbps_km2 (to
\* the rounding of the two hundredths).
C16_CapacityScalesWithArea ==
    /\ fn = "average_capacity"
          => /\ output[1] = Val(call).bandwidth * Val(call).spectral_efficiency
             /\ 2 * Abs(output[2] * (site_area.area \div 100) - output[1] * 10000)
                    <= site_area.area \div 100
    /\ ~IsNone(first)
          => /\ output[1] = Val(first)[1]
             /\ Abs(2 * output[2] - Val(first)[2]) <= 1

\* a call with a capacity above zero was repeated on the doubled site area
C16_Witness ==
    /\ ~IsNone(first)
    /\ Val(first)[2] > 100
    /\ site_area.area = input.width * input.depth
    /\ output[2] < Val(first)[2]

-----------------------------------------------------------------------------
(* Claims about the antenna height of a call                               *)

\* an interfering transmitter with its antenna at height h
AtHeight(entry, h) == [entry EXCEPT !.value.ant_height = h]

\* the manager with every antenna, serving and interfering, at height h
WithMast(self, h) ==
    [transmitter |-> [self.transmitter EXCEPT !.ant_height = h],
     site_area |-> self.site_area,
     interfering_transmitters |->
         [k \in 1..Len(self.interfering_transmitters) |->
             AtHeight(self.interfering_transmitters[k], h)]]

\* the i-th record of results is what the i-th receiver's pass yields with
\* every antenna at the call's mast_height
ResultAtMastHeight(i) ==
    \A r \in RngStates :
        /\ IsReturn(ReceiverBudget(WithMast(Self, Val(call).mast_height),
                                   DictValues(receivers)[i], Val(call), r))
        /\ ReceiverBudget(WithMast(Self, Val(call).mast_height),
                          DictValues(receivers)[i], Val(call), r).value = results[i]

\* C19: the antenna height used for the serving and the interfering path
\* losses of a call is the call's mast_height argument: every record of a
\* seeded call is the one computed with the antennas at mast_height.
C19_MastHeightIsUsed ==
    (pc \in {"loop", "returned"} /\ ~IsNone(Val(call).simulation_parameters.seed_value1))
        => \A i \in 1..Len(results) : ResultAtMastHeight(i)

\* C20: receiver_density returns 0 when the simulator has no receivers, and
\* otherwise returns the number of receivers divided by the site area in km2,
\* without raising.
C20_ReceiverDensity ==
    fn = "receiver_density"
        => /\ IsReturn(output)
           /\ output.value = IF Len(receivers) = 0 THEN 0
                             ELSE RoundDiv(Len(receivers) * 1000000, site_area.area \div 100)

-----------------------------------------------------------------------------
(* generate_hex.py.  Lengths and coordinates are integers in decimetres;   *)
(* the tangent and cosine of 30 degrees are held to four decimals.         *)

\* math.tan(math.pi / 6), in ten-thousandths
Tan30 == 5774

\* math.cos(math.radians(30)), in ten-thousandths
Cos30 == 8660

\* the side length with the radius taken once instead of twice
SideLengthOfRadius(radius) == (radius * Tan30) \div 10000

\* sl = (2 * radius) * math.tan(math.pi / 6)
SideLength(radius) == (2 * radius * Tan30) \div 10000

\* b = sl * math.cos(math.radians(30))
HalfWidth(sl) == (sl * Cos30) \div 10000

\* the seven points p1 .. p6, p1 of the hexagon whose box starts at
\* (startx, starty); p = sl * 0.5, w = b * 2, h = 2 * sl
HexagonAt(startx, starty, sl, b) ==
    <<<<startx, starty + sl \div 2>>, <<startx, starty + 3 * (sl \div 2)>>,
      <<startx + b, starty + 2 * sl>>, <<startx + 2 * b, starty + 3 * (sl \div 2)>>,
      <<startx + 2 * b, starty + sl \div 2>>, <<startx + b, starty>>,
      <<startx, starty + sl \div 2>>>>

\* the inner loop: while startx < endx
RECURSIVE HexRow(_, _, _, _, _)
HexRow(startx, starty, endx, sl, b) ==
    IF startx < endx
    THEN <<HexagonAt(startx, starty, sl, b)>> \o HexRow(startx + 2 * b, starty, endx, sl, b)
    ELSE <<>>

\* the outer loop: while starty < endy, even rows shifted by xoffset = b,
\* rows yoffset = 3 * p apart
RECURSIVE HexRows(_, _, _, _, _, _, _)
HexRows(origx, starty, endx, endy, row, sl, b) ==
    IF starty < endy
    THEN HexRow(IF row % 2 = 0 THEN origx + b ELSE origx, starty, endx, sl, b)
         \o HexRows(origx, starty + 3 * (sl \div 2), endx, endy, row + 1, sl, b)
    ELSE <<>>

\* the grid over the box widened by one hexagon width and height
GridOf(startx, starty, endx, endy, sl, b) ==
    HexRows(startx - 2 * b, starty - 2 * sl, endx + 2 * b, endy + 2 * sl, 1, sl, b)

calculate_polygons(startx, starty, endx, endy, radius) ==
    GridOf(startx, starty, endx, endy, SideLength(radius), HalfWidth(SideLength(radius)))

\* shapely's centroid of a hexagon ring: the mean of its six corners
Centroid(poly) ==
    <<(poly[1][1] + poly[2][1] + poly[3][1] + poly[4][1] + poly[5][1] + poly[6][1]) \div 6,
      (poly[1][2] + poly[2][2] + poly[3][2] + poly[4][2] + poly[5][2] + poly[6][2]) \div 6>>

\* the hexagon features of generate_site_areas, site_id = position - 1
Features(polygon) ==
    [k \in 1..Len(polygon) |->
        [site_id |-> k - 1, coordinates |-> polygon[k], centroid |-> Centroid(polygon[k])]]

\* the squared distance of two points, in units of a hundredth of the radius
DistanceSq(a, b, radius) ==
    ((Abs(a[1] - b[1]) * 100) \div radius) * ((Abs(a[1] - b[1]) * 100) \div radius)
    + ((Abs(a[2] - b[2]) * 100) \div radius) * ((Abs(a[2] - b[2]) * 100) \div radius)

\* the distance of the k-th nearest centroid
KthDistance(hexagons, q, k, radius) ==
    CHOOSE d \in {DistanceSq(hexagons[i].centroid, q, radius) : i \in 1..Len(hexagons)} :
        /\ Cardinality({i \in 1..Len(hexagons) :
                           DistanceSq(hexagons[i].centroid, q, radius) < d}) < k
        /\ Cardinality({i \in 1..Len(hexagons) :
                           DistanceSq(hexagons[i].centroid, q, radius) <= d}) >= k

\* the sequences that list the positions S nearest first, equidistant ones
\* in any order
RECURSIVE NearestFirst(_, _, _, _)
NearestFirst(S, hexagons, q, radius) ==
    IF S = {} THEN {<<>>}
    ELSE UNION {{<<i>> \o t : t \in NearestFirst(S \ {i}, hexagons, q, radius)} :
                i \in {j \in S : \A m \in S :
                          DistanceSq(hexagons[j].centroid, q, radius)
                              <= DistanceSq(hexagons[m].centroid, q, radius)}}

\* list(idx.nearest(q, k, objects='raw')): the k nearest entries and every
\* entry as near as the k-th, nearest first
Nearest(hexagons, q, k, radius) ==
    NearestFirst({i \in 1..Len(hexagons) :
                     DistanceSq(hexagons[i].centroid, q, radius)
                         <= KthDistance(hexagons, q, k, radius)},
                 hexagons, q, radius)

\* all_closest_sites[0:6]
Slice0To6(all) == SubSeq(all, 1, Min(6, Len(all)))

\* all_closest_sites[1:7]
Slice1To7(all) == SubSeq(all, 2, Min(7, Len(all)))

\* the results find_closest_site_areas can give: positions in hexagons
find_closest_site_areas(hexagons, geom_shape, radius) ==
    {[site_area |-> <<hexagons[all[1]]>>,
      interfering_site_areas |-> [k \in 1..Len(Slice1To7(all)) |-> hexagons[Slice1To7(all)[k]]]] :
        all \in UNION {Nearest(hexagons, Centroid(hexagons[one[1]].coordinates), 7, radius) :
                       one \in Nearest(hexagons, geom_shape, 1, radius)}}

\* the hexagons tessellated over the bounds of the point buffered by twice
\* the radius
HexagonsAround(point, site_radius) ==
    Features(calculate_polygons(point[1] - 2 * site_radius, point[2] - 2 * site_radius,
                                point[1] + 2 * site_radius, point[2] + 2 * site_radius,
                                site_radius))

generate_site_areas(point, site_radius) ==
    find_closest_site_areas(HexagonsAround(point, site_radius), point, site_radius)

\* the transmitter at the site area's centroid, the interfering transmitters
\* at the centroids carried by the interfering site areas
find_site_locations(areas) ==
    [transmitter |->
         <<[site_id |-> "transmitter",
            coordinates |-> Centroid(areas.site_area[1].coordinates)]>>,
     interfering_transmitters |->
         [k \in 1..Len(areas.interfering_site_areas) |->
             [site_id |-> areas.interfering_site_areas[k].site_id,
              coordinates |-> areas.interfering_site_areas[k].centroid]],
     site_area |-> areas.site_area,
     interfering_site_areas |-> areas.interfering_site_areas]

\* the results of produce_sites_and_site_areas for a point that is already
\* projected and a radius in metres
produce_sites_and_site_areas(point, site_radius) ==
    {find_site_locations(areas) : areas \in generate_site_areas(point, 10 * site_radius)}

\* shapely's area of a ring, in square metres
RingArea(poly) ==
    PolygonArea([k \in 1..Len(poly) |->
                    <<(poly[k][1] - poly[1][1]) \div 10, (poly[k][2] - poly[6][2]) \div 10>>])

-----------------------------------------------------------------------------
(* The tessellation on its own: produce_sites_and_site_areas called on a   *)
(* projected point and a radius.                                           *)

\* projected points, in decimetres
HexPoints == {<<5000000, 1700000>>, <<5332751, 1712349>>}

\* site radii, in metres
Radii == {250, 1000, 15000}

InitHex ==
    /\ SimAtRest
    /\ rng = SeededState(42)
    /\ fn = "none"
    /\ input = None
    /\ output = None
    /\ first = None

CallProduceSites ==
    \E point \in HexPoints, site_radius \in Radii :
        /\ fn = "none"
        /\ fn' = "produce_sites_and_site_areas"
        /\ input' = [point |-> point, site_radius |-> site_radius]
        /\ output' \in produce_sites_and_site_areas(point, site_radius)
        /\ UNCHANGED <<simvars, rng, first>>

NextHex == CallProduceSites

SpecHex == InitHex /\ [][NextHex]_vars

\* the hexagons the call tessellated
Tessellated == HexagonsAround(input.point, 10 * input.site_radius)

\* no hexagon other than those of `nearer` is nearer to q than hexagon x
NoneNearer(x, q, nearer) ==
    \A i \in 1..Len(Tessellated) :
        \/ Tessellated[i].site_id \in nearer
        \/ DistanceSq(x.centroid, q, 10 * input.site_radius)
               <= DistanceSq(Tessellated[i].centroid, q, 10 * input.site_radius)

\* the site_ids of the site area and of the interfering site areas
ChosenIds ==
    {output.site_area[1].site_id}
    \cup {output.interfering_site_areas[k].site_id :
             k \in 1..Len(output.interfering_site_areas)}

\* C17: the call returns exactly one site area, a hexagon than whose centroid
\* none is nearer to the reference point, and exactly six interfering site
\* areas: six pairwise distinct hexagons, none of them the site area, than
\* which no hexagon outside the seven is nearer to the site area's centroid.
C17_SiteAndSixNeighbours ==
    fn = "produce_sites_and_site_areas"
        => /\ Len(output.site_area) = 1
           /\ NoneNearer(output.site_area[1], input.point, {})
           /\ Len(output.interfering_site_areas) = 6
           /\ Cardinality(ChosenIds) = 7
           /\ \A k \in 1..Len(output.interfering_site_areas) :
                  NoneNearer(output.interfering_site_areas[k],
                             output.site_area[1].centroid, ChosenIds)

\* a call at the radius of 15 km returned a site area and its neighbours
C17_Witness ==
    /\ fn = "produce_sites_and_site_areas"
    /\ input.site_radius = 15000
    /\ Len(output.interfering_site_areas) = 6
    /\ output.interfering_site_areas[1].site_id # output.site_area[1].site_id

\* n times a factor given in ten-thousandths
TimesFactor(n, f) == (n \div 10000) * f + ((n % 10000) * f) \div 10000

\* a is b to within 5 parts in a thousand
About(a, b) == Abs(a - b) <= (b \div 1000) * 5

\* the polygons returned: the site area and the interfering site areas
ReturnedPolygons ==
    {output.site_area[1].coordinates}
    \cup {output.interfering_site_areas[k].coordinates :
             k \in 1..Len(output.interfering_site_areas)}

\* a closed ring of six sides of one length (to the rounding of the
\* coordinates)
ClosedEquilateral(poly) ==
    /\ Len(poly) = 7
    /\ poly[1] = poly[7]
    /\ \A k \in 1..6 :
           About(DistanceSq(poly[k], poly[k + 1], 10 * input.site_radius) * 100,
                 DistanceSq(poly[1], poly[2], 10 * input.site_radius) * 100)

\* the areas the spec quotes: about 0.2 km2 at 250 m, about 779.4 km2 at 15 km
QuotedAreas(poly) ==
    /\ input.site_radius = 250 => (RingArea(poly) + 50000) \div 100000 = 2
    /\ input.site_radius = 15000 => About(RingArea(poly), 779400000)

\* C18 as stated: every polygon returned is a closed regular hexagon of area
\* (3 * sqrt(3) / 2) x radius^2, about 0.2 km2 at 250 m and 779.4 km2 at
\* 15,000 m.
C18_AreaThreeRootThreeHalves ==
    fn = "produce_sites_and_site_areas"
        => \A poly \in ReturnedPolygons :
               /\ ClosedEquilateral(poly)
               /\ About(RingArea(poly),
                        TimesFactor(input.site_radius * input.site_radius, 25981))
               /\ QuotedAreas(poly)

\* C18 amended: every polygon returned is a closed regular hexagon of area
\* 2 * sqrt(3) x radius^2, the radius being the distance from the centre to
\* the middle of a side, about 0.2 km2 at 250 m and 779.4 km2 at 15,000 m.
C18_AreaTwoRootThree ==
    fn = "produce_sites_and_site_areas"
        => \A poly \in ReturnedPolygons :
               /\ ClosedEquilateral(poly)
               /\ About(RingArea(poly),
                        TimesFactor(input.site_radius * input.site_radius, 34641))
               /\ QuotedAreas(poly)

\* a call at the radius of 15 km returned seven polygons
C18_Witness ==
    /\ fn = "produce_sites_and_site_areas"
    /\ input.site_radius = 15000
    /\ Cardinality(ReturnedPolygons) = 7

-----------------------------------------------------------------------------
\* costs.py.  Costs are in USD, sites per km2 and costs per km2 in
\* thousandths; the dicts costs, simulation_parameters and cost_breakdown are
\* functions of their keys.

sharing_strategies ==
    <<"baseline", "passive_site_sharing", "passive_backhaul_sharing",
      "active_moran", "active_mocn", "active_cn_sharing">>

\* the names the module costs.py defines
ModuleFunctions ==
    {"calculate_costs", "get_costs", "baseline", "passive_site_sharing",
     "passive_backhaul_sharing", "active_moran", "active_mocn",
     "active_cn_sharing"}

\* math.sqrt(3) / 2, in ten-thousandths
HalfRootThree == 8660

\* inter_site_distance = site_radius * 2;
\* site_area_km2 = math.sqrt(3) / 2 * inter_site_distance ** 2 / 1e6;
\* sites_per_km2 = 1 / site_area_km2
SitesPerKm2(site_radius) ==
    RoundDiv(1000000000,
             (((((2 * site_radius) * (2 * site_radius)) \div 100) * HalfRootThree)
                  \div 100))

\* the keys baseline reads, in the order in which it reads them
BaselineReads ==
    <<[of |-> "costs", key |-> "single_sector_antenna_2x2_mimo_dual_band"],
      [of |-> "simulation_parameters", key |-> "sectorization"],
      [of |-> "costs", key |-> "single_remote_radio_unit"],
      [of |-> "costs", key |-> "single_baseband_unit"],
      [of |-> "costs", key |-> "router"],
      [of |-> "costs", key |-> "site_rental"],
      [of |-> "costs", key |-> "tower"],
      [of |-> "costs", key |-> "civil_materials"],
      [of |-> "costs", key |-> "transportation"],
      [of |-> "costs", key |-> "installation"],
      [of |-> "costs", key |-> "battery_system"],
      [of |-> "costs", key |-> "fixed_fiber_backhaul_per_km"],
      [of |-> "costs", key |-> "microwave_backhaul_1m"]>>

\* the first key of BaselineReads that its dict does not hold, if any
MissingKey(costs, simulation_parameters) ==
    LET has(x) == IF x.of = "costs" THEN x.key \in DOMAIN costs
                  ELSE x.key \in DOMAIN simulation_parameters
        missing == {i \in 1..Len(BaselineReads) : ~ has(BaselineReads[i])}
    IN  IF missing = {} THEN None
        ELSE Some(BaselineReads[CHOOSE i \in missing : \A j \in missing : i <= j].key)

baseline(costs, sites_per_km2, environment, backhaul_distance, simulation_parameters, r) ==
    IF ~ IsNone(MissingKey(costs, simulation_parameters))
    THEN Raised("KeyError", "key", MissingKey(costs, simulation_parameters), r)
    ELSE Returned(
           [single_sector_antenna_2x2_mimo_dual_band |->
                costs.single_sector_antenna_2x2_mimo_dual_band
                    * simulation_parameters.sectorization * sites_per_km2,
            single_remote_radio_unit |->
                costs.single_remote_radio_unit
                    * simulation_parameters.sectorization * sites_per_km2,
            single_baseband_unit |-> costs.single_baseband_unit * sites_per_km2,
            router |-> costs.router * sites_per_km2,
            site_rental |-> costs.site_rental * 1000,
            tower |-> costs.tower * sites_per_km2,
            civil_materials |-> costs.civil_materials * sites_per_km2,
            transportation |-> costs.transportation * sites_per_km2,
            installation |-> costs.installation * sites_per_km2,
            battery_system |-> costs.battery_system * sites_per_km2,
            fiber_backhaul |->
                [environment |-> environment,
                 value |-> costs.fixed_fiber_backhaul_per_km
                               * backhaul_distance * sites_per_km2],
            microwave_backhaul_1m |-> costs.microwave_backhaul_1m * sites_per_km2], r)

\* the function get_costs calls for a strategy
CalledFor(strategy) ==
    CASE strategy = "baseline" -> "baseline"
      [] strategy = "passive_site_sharing" -> "compound_sharing"
      [] strategy = "passive_backhaul_sharing" -> "mast_sharing"
      [] strategy = "active_moran" -> "ran_sharing"
      [] strategy = "active_mocn" -> "mast_sharing"
      [] strategy = "active_cn_sharing" -> "ran_sharing"
      [] OTHER -> "none"

get_costs(strategy, costs, sites_per_km2, environment, backhaul_distance, simulation_parameters, r) ==
    IF CalledFor(strategy) = "none" THEN Returned(costs, r)
    ELSE IF CalledFor(strategy) \notin ModuleFunctions
    THEN Raised("NameError", "name is not defined", CalledFor(strategy), r)
    ELSE baseline(costs, sites_per_km2, environment, backhaul_distance,
                  simulation_parameters, r)

\* the record calculate_costs appends for a strategy
CostRecord(data, site_radius, environment, strategy, cost_breakdown) ==
    [environment |-> environment,
     inter_site_distance |-> site_radius * 2,
     sites_per_km2 |-> SitesPerKm2(site_radius),
     results_type |-> data.results_type,
     path_loss |-> data.path_loss,
     received_power |-> data.received_power,
     interference |-> data.interference,
     sinr |-> data.sinr,
     spectral_efficiency |-> data.spectral_efficiency,
     capacity_mbps |-> data.capacity_mbps,
     capacity_mbps_km2 |-> data.capacity_mbps,
     strategy |-> strategy,
     total_deployment_costs_km2 |->
         cost_breakdown.single_sector_antenna_2x2_mimo_dual_band
         + cost_breakdown.single_remote_radio_unit
         + cost_breakdown.single_baseband_unit + cost_breakdown.router
         + cost_breakdown.site_rental + cost_breakdown.tower
         + cost_breakdown.civil_materials + cost_breakdown.transportation
         + cost_breakdown.installation + cost_breakdown.battery_system
         + cost_breakdown.fiber_backhaul.value
         + cost_breakdown.microwave_backhaul_1m,
     sector_antenna_costs_km2 |->
         cost_breakdown.single_sector_antenna_2x2_mimo_dual_band,
     remote_radio_unit_costs_km2 |-> cost_breakdown.single_remote_radio_unit,
     baseband_unit_costs_km2 |-> cost_breakdown.single_baseband_unit,
     router_costs_km2 |-> cost_breakdown.router,
     site_rental |-> cost_breakdown.site_rental,
     tower_costs_km2 |-> cost_breakdown.tower,
     civil_material_costs_km2 |-> cost_breakdown.civil_materials,
     transportation_costs_km2 |-> cost_breakdown.transportation,
     installation_costs_km2 |-> cost_breakdown.installation,
     battery_system_costs_km2 |-> cost_breakdown.battery_system,
     fiber_backhaul_costs_km2 |-> cost_breakdown.fiber_backhaul.value,
     microwave_backhaul_1m_costs_km2 |-> cost_breakdown.microwave_backhaul_1m]

\* the key of simulation_parameters that holds the backhaul distance
BackhaulKey(environment) ==
    CASE environment = "urban" -> "backhaul_distance_km_urban"
      [] environment = "suburban" -> "backhaul_distance_km_suburban"
      [] environment = "rural" -> "backhaul_distance_km_rural"

\* for strategy in sharing_strategies, from the i-th strategy on
RECURSIVE CostLoop(_, _, _, _, _, _, _, _)
CostLoop(data, costs, simulation_parameters, site_radius, environment, i, acc, r) ==
    IF i > Len(sharing_strategies) THEN Returned(acc, r)
    ELSE IF BackhaulKey(environment) \notin DOMAIN simulation_parameters
    THEN Raised("UnboundLocalError", "referenced before assignment",
                "backhaul_distance", r)
    ELSE LET breakdown ==
                 get_costs(sharing_strategies[i], costs, SitesPerKm2(site_radius),
                           environment,
                           simulation_parameters[BackhaulKey(environment)],
                           simulation_parameters, r)
         IN  IF IsRaise(breakdown) THEN breakdown
             ELSE CostLoop(data, costs, simulation_parameters, site_radius,
                           environment, i + 1,
                           Append(acc, CostRecord(data, site_radius, environment,
                                                  sharing_strategies[i],
                                                  breakdown.value)), r)

calculate_costs(data, costs, simulation_parameters, site_radius, environment, r) ==
    CostLoop(data, costs, simulation_parameters, site_radius, environment, 1, <<>>, r)

-----------------------------------------------------------------------------
\* Calls of the cost functions on bounded inputs.

\* the result record of the test fixture, in hundredths
CostData ==
    [results_type |-> "10_percentile", path_loss |-> 9685,
     received_power |-> -5467, interference |-> -6208, sinr |-> 219,
     spectral_efficiency |-> 148, capacity_mbps |-> 1477]

\* the cost table of the runner and of the test fixture, and one that holds
\* the keys the cost functions read
CostTables ==
    {[single_sector_antenna |-> 1500, single_remote_radio_unit |-> 4000,
      single_baseband_unit |-> 10000, tower |-> 10000,
      civil_materials |-> 5000, transportation |-> 10000,
      installation |-> 5000, site_rental |-> 9600,
      power_generator_battery_system |-> 5000,
      high_speed_backhaul_hub |-> 15000, router |-> 2000]}
    \cup {[single_sector_antenna_2x2_mimo_dual_band |-> 1500,
           single_remote_radio_unit |-> 4000, single_baseband_unit |-> 10000,
           router |-> 2000, site_rental |-> 9600, tower |-> t,
           civil_materials |-> 5000, transportation |-> 10000,
           installation |-> 5000, battery_system |-> 5000,
           fixed_fiber_backhaul_per_km |-> 5000,
           microwave_backhaul_1m |-> 2000] : t \in {10000, 20000}}

CostParameters ==
    UNION {{[sectorization |-> s, number_of_mnos_sharing |-> 2],
            [sectorization |-> s, number_of_mnos_sharing |-> 2,
             backhaul_distance_km_urban |-> 1],
            [sectorization |-> s, number_of_mnos_sharing |-> 2,
             backhaul_distance_km_urban |-> 1,
             backhaul_distance_km_suburban |-> 2,
             backhaul_distance_km_rural |-> 5]} : s \in {1, 3}}
    \cup {[mnos |-> 2, sectorization |-> 3]}

CostRadii == {250, 500, 1000}

Environments == {"urban", "suburban", "rural"}

InitCosts ==
    /\ SimAtRest
    /\ rng = SeededState(42)
    /\ fn = "none"
    /\ output = None
    /\ first = None
    /\ input \in [costs : CostTables, simulation_parameters : CostParameters,
                  site_radius : CostRadii, environment : Environments]

CallCalculateCosts ==
    /\ fn = "none"
    /\ fn' = "calculate_costs"
    /\ output' = calculate_costs(CostData, input.costs, input.simulation_parameters,
                                 input.site_radius, input.environment, rng)
    /\ UNCHANGED <<simvars, rng, input, first>>

CallGetCosts ==
    \E strategy \in {sharing_strategies[i] : i \in 1..Len(sharing_strategies)} :
        /\ fn = "none"
        /\ BackhaulKey(input.environment) \in DOMAIN input.simulation_parameters
        /\ fn' = "get_costs"
        /\ first' = Some(strategy)
        /\ output' = get_costs(strategy, input.costs, SitesPerKm2(input.site_radius),
                               input.environment,
                               input.simulation_parameters[BackhaulKey(input.environment)],
                               input.simulation_parameters, rng)
        /\ UNCHANGED <<simvars, rng, input>>

NextCosts == CallCalculateCosts \/ CallGetCosts

SpecCosts == InitCosts /\ [][NextCosts]_vars

\* C21: calculate_costs returns a list of one cost record for every sharing
\* strategy, in the order of the strategies, each tagged with its strategy
\* name and carrying the cost breakdown get_costs gives for that strategy.
C21_OneRecordPerStrategy ==
    fn = "calculate_costs"
        => /\ IsReturn(output)
           /\ Len(output.value) = Len(sharing_strategies)
           /\ \A i \in 1..Len(sharing_strategies) :
                  output.value[i].strategy = sharing_strategies[i]

-----------------------------------------------------------------------------
\* The lookup on the table layout of the runner and of the test fixture:
\* (generation, transmission type, cqi, modulation, coding rate, spectral
\* efficiency, sinr), every number in ten-thousandths.  Python index k is
\* TLA+ index k + 1, so the code's [5] is the spectral efficiency and its [4]
\* the coding rate.

Fixture4G ==
    <<<<"4G", "1x1", 1, "QPSK", 762, 1523, -67000>>,
      <<"4G", "1x1", 2, "QPSK", 1172, 2344, -47000>>,
      <<"4G", "1x1", 3, "QPSK", 1885, 3770, -23000>>,
      <<"4G", "1x1", 4, "QPSK", 3008, 6016, 2000>>,
      <<"4G", "1x1", 5, "QPSK", 4385, 8770, 24000>>,
      <<"4G", "1x1", 6, "QPSK", 5879, 11758, 43000>>,
      <<"4G", "1x1", 7, "16QAM", 3691, 14766, 59000>>,
      <<"4G", "1x1", 8, "16QAM", 4785, 19141, 81000>>,
      <<"4G", "1x1", 9, "16QAM", 6016, 24063, 103000>>,
      <<"4G", "1x1", 10, "64QAM", 4551, 27305, 117000>>,
      <<"4G", "1x1", 11, "64QAM", 5537, 33223, 141000>>,
      <<"4G", "1x1", 12, "64QAM", 6504, 39023, 163000>>,
      <<"4G", "1x1", 13, "64QAM", 7539, 45234, 187000>>,
      <<"4G", "1x1", 14, "64QAM", 8525, 51152, 210000>>,
      <<"4G", "1x1", 15, "64QAM", 9258, 55547, 227000>>>>

Fixture5G ==
    <<<<"5G", "1x1", 1, "QPSK", 780000, 1523, -67000>>,
      <<"5G", "1x1", 2, "QPSK", 1930000, 3770, -47000>>,
      <<"5G", "1x1", 3, "QPSK", 4490000, 8770, -23000>>,
      <<"5G", "1x1", 4, "16QAM", 3780000, 14766, 2000>>,
      <<"5G", "1x1", 5, "16QAM", 4900000, 19141, 24000>>,
      <<"5G", "1x1", 6, "16QAM", 6160000, 24063, 43000>>,
      <<"5G", "1x1", 7, "64QAM", 4660000, 27305, 59000>>,
      <<"5G", "1x1", 8, "64QAM", 5670000, 33223, 81000>>,
      <<"5G", "1x1", 9, "64QAM", 6660000, 39023, 103000>>,
      <<"5G", "1x1", 10, "64QAM", 7720000, 45234, 117000>>,
      <<"5G", "1x1", 11, "64QAM", 8730000, 51152, 141000>>,
      <<"5G", "1x1", 12, "256QAM", 7110000, 55547, 163000>>,
      <<"5G", "1x1", 13, "256QAM", 7970000, 62266, 187000>>,
      <<"5G", "1x1", 14, "256QAM", 8850000, 69141, 210000>>,
      <<"5G", "1x1", 15, "256QAM", 9480000, 74063, 227000>>>>

\* setup_modulation_coding_lut
FixtureLut == Fixture4G \o Fixture5G

LayoutTables == {FixtureLut, Fixture4G, Fixture5G, SubSeq(Fixture5G, 4, 6)}

LayoutSinrs ==
    {-100000, -67000, -30000, 0, 1000, 1523, 2000, 5000, 8770, 10000, 20000,
     24000, 50000, 59000, 74063, 81000, 100000, 141000, 163000, 227000, 300000}

InitLayout ==
    /\ SimAtRest
    /\ rng = 0
    /\ fn = "none"
    /\ input \in [modulation_and_coding_lut : LayoutTables, sinr : LayoutSinrs,
                  generation : Generations]
    /\ output = None
    /\ first = None

CallModulationOnLayout ==
    /\ fn = "none"
    /\ fn' = "modulation_scheme_and_coding_rate"
    /\ output' = modulation_scheme_and_coding_rate(
                     input.sinr, input.generation, input.modulation_and_coding_lut)
    /\ first' = Some("called")
    /\ UNCHANGED <<simvars, rng, input>>

NextLayout == CallModulationOnLayout

SpecLayout == InitLayout /\ [][NextLayout]_vars

\* C22: on tables in the seven-field layout the lookup compares the SINR
\* against the entries' SINR-threshold field (the seventh) and returns a
\* spectral-efficiency field (the sixth): a SINR bracketed by two adjacent
\* entries of the requested generation gives the lower entry's spectral
\* efficiency, and on the fixture table SINR 10 gives 1.9141 for 4G and
\* 3.3223 for 5G.
C22_SevenFieldLayout ==
    fn = "modulation_scheme_and_coding_rate"
        => LET lut == input.modulation_and_coding_lut
           IN  /\ \A i \in 1..(Len(lut) - 1) :
                      /\ lut[i][1] = input.generation
                      /\ lut[i + 1][1] = input.generation
                      /\ lut[i][7] <= input.sinr
                      /\ input.sinr < lut[i + 1][7]
                      => output = Some(lut[i][6])
               /\ lut = FixtureLut /\ input.sinr = 100000
                      => output = Some(IF input.generation = "4G" THEN 19141
                                       ELSE 33223)

-----------------------------------------------------------------------------
\* the lookup of the running call finds no pair for the SINR of a record
NoPairMatches(record) ==
    IsNone(modulation_scheme_and_coding_rate(record.sinr, Val(call).generation,
                                             Val(call).modulation_and_coding_lut))

\* C23: when no adjacent pair of the table matches (here: the requested
\* generation is not in the table) the lookup gives the default spectral
\* efficiency 0.1 and estimate_link_budget completes: the call does not fail
\* on the looked-up value, and a call for a generation the table does not hold
\* returns records whose spectral efficiency is 0.1 and whose capacity is
\* computed from it.
C23_DefaultEfficiency ==
    /\ pc = "raised" => Val(error).type # "TypeError"
    /\ pc = "returned" /\ call # None
           => \A i \in 1..Len(results) :
                  NoPairMatches(results[i])
                      => /\ results[i].spectral_efficiency = 10
                         /\ results[i].capacity_mbps
                                = average_capacity(Self, Val(call).bandwidth, 10)[1]

-----------------------------------------------------------------------------
\* C24: for every positive integer seed and every frequency that
\* path_loss_calculator accepts (0.03 < f < 6 GHz), indoor receivers
\* included, every log-normal draw of the call derives its two-digit seed and
\* returns a value: the call never fails while deriving a seed.
C24_SeedAlwaysDerived ==
    /\ fn = "path_loss_calculator"
    /\ ~ IsNone(input.seed_value)
    /\ 3 < input.frequency
    /\ input.frequency < 600
    => ~ (IsRaise(output) /\ output.msg = "invalid seed for np.random.seed")

-----------------------------------------------------------------------------
\* C25: no step of estimate_link_budget, in a call that returns or in one
\* that raises, changes the simulator's transmitter, receiver map,
\* interfering-transmitter map or site area, and once the call has begun the
\* modulation table and the simulation parameters passed to it stay as they
\* were passed; successive calls see the same entities.
C25_EntitiesUnchanged ==
    [][/\ transmitter' = transmitter
       /\ site_area' = site_area
       /\ receivers' = receivers
       /\ interfering_transmitters' = interfering_transmitters
       /\ pc = "loop" => call' = call]_vars

\* a call on a manager with two receivers and two interfering transmitters has
\* ended, returning two records or raising, and the entities are those the
\* constructor built
C25_Witness ==
    /\ pc \in {"returned", "raised"}
    /\ Len(receivers) = 2
    /\ Len(interfering_transmitters) = 2
    /\ pc = "returned" => Len(results) = 2
    /\ Constructed(input)

-----------------------------------------------------------------------------
\* A whole call of estimate_link_budget, and the runner's unseeded draws.

\* for receiver in self.receivers.values(), from the i-th receiver on
RECURSIVE LinkBudgetLoop(_, _, _, _, _, _)
RECURSIVE LinkBudgetNext(_, _, _, _, _, _)
LinkBudgetNext(self, self_receivers, call_args, i, acc, outcome) ==
    IF IsRaise(outcome) THEN outcome
    ELSE LinkBudgetLoop(self, self_receivers, call_args, i + 1,
                        Append(acc, outcome.value), outcome.rng)

LinkBudgetLoop(self, self_receivers, call_args, i, acc, r) ==
    IF i > Len(self_receivers) THEN Returned(acc, r)
    ELSE LinkBudgetNext(self, self_receivers, call_args, i, acc,
             ReceiverBudget(self, DictValues(self_receivers)[i], call_args, r))

\* the call from its entry to its return or to the exception that leaves it
estimate_link_budget(self, self_receivers, call_args, r) ==
    LinkBudgetLoop(self, self_receivers, call_args, 1, <<>>, r)

\* np.random.rand(1, 1)[0][0] read off state r, in hundredths
Uniform(r) == (r * 61 + 17) % 100

\* range(1, 11): the points generate_receivers places between the site and
\* the edge of its area
ReceiverPoints == 10

\* generate_receivers(site_area, parameters, 0): the points along the line
\* from the first vertex of the site area to its centroid (here: how far
\* along), each with an unseeded draw deciding indoor or outdoor
generate_receivers(a_site_area, parameters, r) ==
    LET coord == a_site_area.coordinates[1]
        centroid == <<(a_site_area.coordinates[1][1] + a_site_area.coordinates[3][1]) \div 2,
                      (a_site_area.coordinates[1][2] + a_site_area.coordinates[3][2]) \div 2>>
        length == Isqrt((centroid[1] - coord[1]) * (centroid[1] - coord[1])
                        + (centroid[2] - coord[2]) * (centroid[2] - coord[2]))
        increment == length \div 20
    IN  Returned([k \in 1..ReceiverPoints |->
                     [ue_id |-> k - 1,
                      along |-> increment * k,
                      misc_losses |-> parameters.rx_misc_losses,
                      gain |-> parameters.rx_gain,
                      losses |-> parameters.rx_losses,
                      ue_height |-> parameters.rx_height,
                      indoor |-> Uniform(Advance(r, k - 1))
                                     < parameters.indoor_users_percentage]],
                 Advance(r, ReceiverPoints))

\* the parameters generate_receivers reads
RunnerParameters ==
    [indoor_users_percentage |-> 50, rx_misc_losses |-> 400, rx_gain |-> 400,
     rx_losses |-> 400, rx_height |-> 15]

SessionParameters ==
    [seed_value1 : {Some(1)}, seed_value2 : {Some(2)}, iterations : {1, 2},
     network_load : {50}]

SessionFrequencies == {70, 350}

\* receiver lists ending indoors and outdoors, and one that ends out of range
SessionReceivers ==
    {<<ReceiverData("a", <<30, 40>>, FALSE)>>,
     <<ReceiverData("b", <<300, 400>>, TRUE)>>,
     <<ReceiverData("b", <<300, 400>>, TRUE), ReceiverData("a", <<30, 40>>, FALSE)>>,
     <<ReceiverData("a", <<30, 40>>, FALSE), ReceiverData("c", <<0, 120000>>, FALSE)>>}

SessionInterferers ==
    {<<[site_id |-> "east", coordinates |-> <<1000, 0>>]>>,
     <<[site_id |-> "far", coordinates |-> <<0, -150000>>],
       [site_id |-> "east", coordinates |-> <<1000, 0>>]>>}

InitSession ==
    /\ SimAtRest
    /\ rng \in RngStates
    /\ fn = "none"
    /\ input = None
    /\ output = None
    /\ first = None

\* what a call on a manager in the state `self` leaves
Called(outcome) ==
    /\ rng' = outcome.rng
    /\ results' = IF IsReturn(outcome) THEN outcome.value ELSE <<>>
    /\ pc' = IF IsReturn(outcome) THEN "returned" ELSE "raised"
    /\ error' = IF IsReturn(outcome) THEN None
                ELSE Some([type |-> outcome.type, msg |-> outcome.msg])

\* a configuration: a manager is constructed and estimate_link_budget called
RunLinkBudget ==
    \E list \in SessionReceivers, interferers \in SessionInterferers,
       frequency \in SessionFrequencies, simulation_parameters \in SessionParameters :
        /\ fn \in {"none", "generate_receivers"}
        /\ fn' = "estimate_link_budget"
        /\ input' = [transmitter |-> TransmitterData,
                     interfering_transmitters |-> interferers,
                     receivers |-> list, site_area |-> SiteAreaData,
                     simulation_parameters |->
                         CHOOSE p \in ConstructorParameters : TRUE,
                     rng |-> rng]
        /\ transmitter' = Transmitter(input'.transmitter, input'.simulation_parameters)
        /\ site_area' = SiteArea(input'.site_area)
        /\ receivers' = BuildReceivers(list, input'.simulation_parameters, <<>>)
        /\ interfering_transmitters' =
               BuildInterferers(interferers, input'.simulation_parameters, <<>>)
        /\ call' = Some([frequency |-> frequency, bandwidth |-> 10,
                         generation |-> "5G", mast_height |-> 300,
                         environment |-> "urban",
                         modulation_and_coding_lut |-> SimulatorLut,
                         simulation_parameters |-> simulation_parameters])
        /\ \E outcome \in {estimate_link_budget(
                                [transmitter |-> transmitter', site_area |-> site_area',
                                 interfering_transmitters |-> interfering_transmitters'],
                                receivers', Val(call'), rng)} :
               Called(outcome)
        /\ UNCHANGED <<output, first>>

\* the seed and the frequency of the last path-loss draw of a call that
\* returned: those of the last interferer's path loss
EndKey == <<Val(call).simulation_parameters.seed_value2, Val(call).frequency>>

\* the number of samples of that draw: one for the penetration loss of an
\* indoor receiver, `iterations` for the propagation model's variation
EndSamples ==
    IF DictValues(receivers)[Len(receivers)].indoor THEN 1
    ELSE Val(call).simulation_parameters.iterations

\* the call just made returned and had non-None seeds
SeededCallReturned ==
    /\ pc = "returned"
    /\ ~ IsNone(Val(call).simulation_parameters.seed_value1)
    /\ ~ IsNone(Val(call).simulation_parameters.seed_value2)

\* the runner generates the next configuration's receivers; `first` may keep
\* these draws for comparison with later ones
GenerateReceivers ==
    /\ fn = "estimate_link_budget"
    /\ fn' = "generate_receivers"
    /\ \E generated \in {generate_receivers(site_area, RunnerParameters, rng)} :
           /\ output' = generated.value
           /\ rng' = generated.rng
    /\ \/ UNCHANGED first
       \/ /\ first = None
          /\ SeededCallReturned
          /\ first' = Some([key |-> EndKey, samples |-> EndSamples,
                            before |-> input.rng, after |-> rng,
                            receivers |-> output'])
    /\ UNCHANGED <<simvars, input>>

NextSession == RunLinkBudget \/ GenerateReceivers

SpecSession == InitSession /\ [][NextSession]_vars

\* draws were made after a seeded call that returned, and the draws made
\* after an earlier such call have been kept
TwoCallsDrawnAfter ==
    /\ fn = "generate_receivers"
    /\ SeededCallReturned
    /\ first # None

\* C26 as stated: the generator's state after a call (non-None seeds, at
\* least one receiver and one interferer) is fixed by the seed and the
\* frequency of the call's last path-loss draw, whatever it was before the
\* call, so the unseeded draws of generate_receivers come out the same after
\* every two calls that end with the same (seed, frequency).
C26_DrawsRepeatForSeedAndFrequency ==
    TwoCallsDrawnAfter /\ Val(first).key = EndKey
        => Val(first).receivers = output

\* C26 amended: the generator's state after a call that returns is fixed by
\* the seed, the frequency and the number of samples of the call's last
\* path-loss draw, whatever it was before the call, so the unseeded draws
\* of generate_receivers come out the same after every two calls that end
\* with the same seed, frequency and number of samples.
C26_DrawsRepeatForSeedFrequencyAndSamples ==
    /\ fn = "estimate_link_budget" /\ SeededCallReturned
           => rng = Advance(Val(Reseed(Val(EndKey[1]) * EndKey[2], 0)), EndSamples)
    /\ TwoCallsDrawnAfter /\ Val(first).key = EndKey /\ Val(first).samples = EndSamples
           => Val(first).receivers = output

\* the draws after two calls with the same seed, frequency and number of
\* samples at the end, made from different states of the generator
C26_Witness ==
    /\ TwoCallsDrawnAfter
    /\ Val(first).key = EndKey
    /\ Val(first).samples = EndSamples
    /\ Val(first).before # input.rng
    /\ Val(first).receivers = output

-----------------------------------------------------------------------------
\* Managers built from records that share ids.

MaxRecords == 2

IdReceiverPool ==
    {ReceiverData("a", <<30, 40>>, FALSE), ReceiverData("a", <<300, 400>>, TRUE),
     ReceiverData("b", <<100, 0>>, FALSE)}

IdInterfererPool ==
    {[site_id |-> "east", coordinates |-> <<1000, 0>>],
     [site_id |-> "east", coordinates |-> <<0, 2000>>],
     [site_id |-> "north", coordinates |-> <<0, 1000>>]}

IdCallParameters ==
    [seed_value1 |-> Some(1), seed_value2 |-> Some(2), iterations |-> 1,
     network_load |-> 50]

InitIds ==
    /\ input \in [transmitter : {TransmitterData},
                  interfering_transmitters : SeqsUpTo(IdInterfererPool, MaxRecords),
                  receivers : SeqsUpTo(IdReceiverPool, MaxRecords),
                  site_area : {SiteAreaData},
                  simulation_parameters : ConstructorParameters]
    /\ Constructed(input)
    /\ call = None
    /\ pc = "idle"
    /\ results = <<>>
    /\ error = None
    /\ rng = SeededState(42)
    /\ fn = "none"
    /\ output = None
    /\ first = None

\* one call of estimate_link_budget on the manager
CallEstimateLinkBudget ==
    \E frequency \in SessionFrequencies :
        /\ fn = "none"
        /\ fn' = "estimate_link_budget"
        /\ call' = Some([frequency |-> frequency, bandwidth |-> 10,
                         generation |-> "5G", mast_height |-> 300,
                         environment |-> "urban",
                         modulation_and_coding_lut |-> SimulatorLut,
                         simulation_parameters |-> IdCallParameters])
        /\ \E outcome \in {estimate_link_budget(Self, receivers, Val(call'), rng)} :
               Called(outcome)
        /\ UNCHANGED <<transmitter, site_area, receivers, interfering_transmitters, input, output, first>>

NextIds == CallEstimateLinkBudget

SpecIds == InitIds /\ [][NextIds]_vars

\* the positions at which an id occurs for the first time, in order
RECURSIVE FirstOccurrences(_, _)
FirstOccurrences(ids, i) ==
    IF i > Len(ids) THEN <<>>
    ELSE (IF \E j \in 1..(i - 1) : ids[j] = ids[i] THEN <<>> ELSE <<i>>)
             \o FirstOccurrences(ids, i + 1)

\* the last position at which the id of position i occurs
LastWith(ids, i) ==
    CHOOSE j \in 1..Len(ids) :
        /\ ids[j] = ids[i]
        /\ \A k \in (j + 1)..Len(ids) : ids[k] # ids[i]

\* for every distinct id the last record that carries it, one per id
LastOfEach(list, ids) ==
    [p \in 1..Len(FirstOccurrences(ids, 1)) |->
        list[LastWith(ids, FirstOccurrences(ids, 1)[p])]]

ReceiverIds == [i \in 1..Len(input.receivers) |-> input.receivers[i].ue_id]

SiteIds ==
    [i \in 1..Len(input.interfering_transmitters) |->
        input.interfering_transmitters[i].site_id]

\* the manager's maps when each id is held once, with its last record
HeldOnce ==
    [transmitter |-> transmitter, site_area |-> site_area,
     receivers |->
         [p \in 1..Len(LastOfEach(input.receivers, ReceiverIds)) |->
             [key |-> LastOfEach(input.receivers, ReceiverIds)[p].ue_id,
              value |-> Receiver(LastOfEach(input.receivers, ReceiverIds)[p],
                                 input.simulation_parameters)]],
     interfering_transmitters |->
         [p \in 1..Len(LastOfEach(input.interfering_transmitters, SiteIds)) |->
             [key |-> LastOfEach(input.interfering_transmitters, SiteIds)[p].site_id,
              value |-> InterferingTransmitter(
                            LastOfEach(input.interfering_transmitters, SiteIds)[p],
                            input.simulation_parameters)]]]

\* C27: when records passed to the constructor share an id the later record
\* replaces the earlier one: the manager holds exactly one receiver per
\* distinct ue_id and one interfering transmitter per distinct site_id, each
\* built from the last record with that id, and a call that returns yields
\* one result per distinct ue_id, with the interference of one interferer per
\* distinct site_id.
C27_LaterRecordReplaces ==
    /\ Len(receivers) = Cardinality({ReceiverIds[i] : i \in 1..Len(ReceiverIds)})
    /\ Len(interfering_transmitters) = Cardinality({SiteIds[i] : i \in 1..Len(SiteIds)})
    /\ {receivers[i] : i \in 1..Len(receivers)}
           = {HeldOnce.receivers[i] : i \in 1..Len(HeldOnce.receivers)}
    /\ {interfering_transmitters[i] : i \in 1..Len(interfering_transmitters)}
           = {HeldOnce.interfering_transmitters[i] :
                 i \in 1..Len(HeldOnce.interfering_transmitters)}
    /\ fn = "estimate_link_budget" /\ pc = "returned"
           => /\ Len(results) = Len(FirstOccurrences(ReceiverIds, 1))
              /\ \A i, j \in 1..Len(results) : results[i].id = results[j].id => i = j
              /\ Returned(results, rng)
                     = estimate_link_budget(HeldOnce, HeldOnce.receivers, Val(call),
                                            SeededState(42))

\* a call returned on a manager given two different receiver records with one
\* ue_id and two different interferer records with one site_id
C27_Witness ==
    /\ fn = "estimate_link_budget"
    /\ pc = "returned"
    /\ Len(input.receivers) = 2
    /\ ReceiverIds[1] = ReceiverIds[2]
    /\ input.receivers[1] # input.receivers[2]
    /\ Len(input.interfering_transmitters) = 2
    /\ SiteIds[1] = SiteIds[2]
    /\ input.interfering_transmitters[1] # input.interfering_transmitters[2]
    /\ Len(results) = 1

-----------------------------------------------------------------------------
\* Calls of path_loss_calculator that differ in the arguments describing the
\* surroundings of the link.

SightFrequencies == {70, 180, 350}

SightDistances == {30, 249, 250, 700}

AntTypes == {"macro", "micro"}

BuildingHeights == {5, 20}

StreetWidths == {10, 20}

\* the arguments the simulator passes for a receiver at a distance
InitSight ==
    /\ SimAtRest
    /\ rng \in RngStates
    /\ fn = "none"
    /\ \E frequency \in SightFrequencies, distance \in SightDistances,
          indoor \in BOOLEAN, seed_value \in {None, Some(1)} :
          input = [frequency |-> frequency, distance |-> distance,
                   ant_height |-> 300, ant_type |-> "macro",
                   building_height |-> 20, street_width |-> 20,
                   settlement_type |-> "urban",
                   type_of_sight |-> TypeOfSight(distance), ue_height |-> 15,
                   above_roof |-> 0, indoor |-> indoor, seed_value |-> seed_value,
                   iterations |-> 1, rng |-> rng]
    /\ output = None
    /\ first = None

\* path_loss_calculator on the arguments of `input`, and on arguments that
\* differ from them in type_of_sight, ant_type, building_height and
\* street_width only; `first` keeps the second call's outcome
CallWithOtherSurroundings ==
    \E type_of_sight \in Sights, ant_type \in AntTypes,
       building_height \in BuildingHeights, street_width \in StreetWidths :
        /\ fn = "none"
        /\ fn' = "path_loss_calculator"
        /\ call' = Some([type_of_sight |-> type_of_sight, ant_type |-> ant_type,
                         building_height |-> building_height,
                         street_width |-> street_width])
        /\ output' = PathLossOf(input)
        /\ first' = Some(PathLossOf([input EXCEPT !.type_of_sight = type_of_sight,
                                                  !.ant_type = ant_type,
                                                  !.building_height = building_height,
                                                  !.street_width = street_width]))
        /\ rng' = output'.rng
        /\ UNCHANGED <<transmitter, site_area, receivers, interfering_transmitters, pc, results, error, input>>

\* the simulator's calculate_path_loss over the distance, and
\* path_loss_calculator with the other classification of the sight
CallCalculatePathLoss ==
    /\ fn = "none"
    /\ fn' = "calculate_path_loss"
    /\ call' = Some([type_of_sight |->
                         IF TypeOfSight(input.distance) = "los" THEN "nlos" ELSE "los"])
    /\ output' = PathLossOver(input.distance, input.ant_height,
                              [ue_height |-> input.ue_height, indoor |-> input.indoor],
                              input.frequency, input.settlement_type,
                              input.seed_value, input.iterations, rng)
    /\ first' = Some(PathLossOf([input EXCEPT !.type_of_sight = Val(call').type_of_sight]))
    /\ rng' = output'.rng
    /\ UNCHANGED <<transmitter, site_area, receivers, interfering_transmitters, pc, results, error, input>>

NextSight == CallWithOtherSurroundings \/ CallCalculatePathLoss

SpecSight == InitSight /\ [][NextSight]_vars

\* C28: two calls of path_loss_calculator that differ only in type_of_sight,
\* ant_type, building_height or street_width return the same path loss and
\* model name (or fail alike), so the path loss and the model the simulator
\* reports for a receiver are those of the other classification of the sight:
\* the classification at 250 m changes only the reported flag.
C28_SurroundingsNotRead ==
    /\ fn = "path_loss_calculator" => output = Val(first)
    /\ fn = "calculate_path_loss" /\ IsReturn(output)
           => /\ IsReturn(Val(first))
              /\ output.value.path_loss = Val(first).value[1]
              /\ output.value.model = Val(first).value[2]
              /\ output.value.type_of_sight # Val(call).type_of_sight

\* the two calls differed in all four arguments and returned an extended
\* Hata path loss
C28_Witness ==
    /\ fn = "path_loss_calculator"
    /\ Val(call).type_of_sight # input.type_of_sight
    /\ Val(call).ant_type # input.ant_type
    /\ Val(call).building_height # input.building_height
    /\ Val(call).street_width # input.street_width
    /\ IsReturn(output)
    /\ output.value[2] = "extended_hata_path_loss"

-----------------------------------------------------------------------------
\* C29: the interference power computed for an interfering transmitter is
\* that interferer's own power + gain - losses, minus the path loss and the
\* receiver's misc losses, plus the receiver's gain, minus the receiver's
\* losses: calc_received_power reads the serving transmitter's power, gain
\* and losses, and in every reachable state of the simulator these equal
\* those of every interfering transmitter.
C29_InterfererPowerIsOwn ==
    \A i \in 1..Len(interfering_transmitters) :
        /\ interfering_transmitters[i].value.power = transmitter.power
        /\ interfering_transmitters[i].value.gain = transmitter.gain
        /\ interfering_transmitters[i].value.losses = transmitter.losses
        /\ \A j \in 1..Len(receivers), path_loss \in LossValues :
               calc_received_power(Self, interfering_transmitters[i].value,
                                   receivers[j].value, path_loss)
                   = interfering_transmitters[i].value.power
                     + interfering_transmitters[i].value.gain
                     - interfering_transmitters[i].value.losses
                     - path_loss - receivers[j].value.misc_losses
                     + receivers[j].value.gain - receivers[j].value.losses

\* a call has returned a result whose interference came from two interfering
\* transmitters
C29_Witness ==
    /\ pc = "returned"
    /\ Len(results) >= 1
    /\ Len(interfering_transmitters) = 2

-----------------------------------------------------------------------------
(* scripts/run.py: run_simulator, the sweep over environments, antenna     *)
(* types, site radii, transmission types and spectrum entries.  The cursor *)
(* of the sweep is kept in `call`, the configurations whose results were   *)
(* written in `output`, the arguments of run_simulator in `input`.         *)

\* the parameters of SimulationManager.__init__ after self
ManagerParameters ==
    <<"transmitter", "interfering_transmitters", "receivers", "site_area",
      "simulation_parameters">>

\* the arguments run_simulator passes to SimulationManager
ManagerArguments ==
    <<"transmitter", "interfering_transmitters", "ant_type", "receivers",
      "site_area", "PARAMETERS">>

\* the parameters of estimate_link_budget after self
LinkBudgetParameters ==
    <<"frequency", "bandwidth", "generation", "mast_height", "environment",
      "modulation_and_coding_lut", "simulation_parameters">>

\* the arguments run_simulator passes to estimate_link_budget
LinkBudgetArguments ==
    <<"frequency", "bandwidth", "generation", "ant_type", "transmission_type",
      "environment", "lut", "parameters">>

\* the environments run_simulator loops over
SweepEnvironments == <<"urban", "suburban", "rural">>

\* entries of SPECTRUM_PORTFOLIO: frequency in 0.01 GHz, bandwidth, generation
SweepEntries ==
    {[frequency |-> 70, bandwidth |-> 10, generation |-> "5G"],
     [frequency |-> 80, bandwidth |-> 10, generation |-> "4G"],
     [frequency |-> 350, bandwidth |-> 50, generation |-> "5G"],
     [frequency |-> 2600, bandwidth |-> 500, generation |-> "5G"]}

MaxPortfolio == 2

SweepTransmissionTypes ==
    {<<"1x1">>, <<"8x8">>, <<"1x1", "8x8">>, <<"8x8", "1x1">>}

SweepAntTypes == <<"macro">>

\* site_radii[ant_type][environment]
SweepRadii == <<400>>

\* the number of configurations the nested loops visit
SweepLength(args) ==
    Len(SweepEnvironments) * Len(SweepAntTypes) * Len(SweepRadii)
        * Len(args.tranmission_types) * Len(args.spectrum_portfolio)

\* the k-th configuration in the order of the nested loops: the spectrum
\* entry varies fastest, then the transmission type, the site radius, the
\* antenna type and the environment
ConfigurationAt(args, k) ==
    [environment |->
         SweepEnvironments[((k - 1) \div (Len(SweepAntTypes) * Len(SweepRadii)
             * Len(args.tranmission_types) * Len(args.spectrum_portfolio))) + 1],
     ant_type |->
         SweepAntTypes[(((k - 1) \div (Len(SweepRadii)
             * Len(args.tranmission_types) * Len(args.spectrum_portfolio)))
             % Len(SweepAntTypes)) + 1],
     site_radius |->
         SweepRadii[(((k - 1) \div (Len(args.tranmission_types)
             * Len(args.spectrum_portfolio))) % Len(SweepRadii)) + 1],
     transmission_type |->
         args.tranmission_types[(((k - 1) \div Len(args.spectrum_portfolio))
             % Len(args.tranmission_types)) + 1],
     entry |-> args.spectrum_portfolio[((k - 1) % Len(args.spectrum_portfolio)) + 1]]

Configurations(args) == [k \in 1..SweepLength(args) |-> ConfigurationAt(args, k)]

\* if generation == '4G' and not transmission_type == '1x1': continue
Skipped(config) ==
    config.entry.generation = "4G" /\ config.transmission_type # "1x1"

\* MANAGER = SimulationManager(...) and MANAGER.estimate_link_budget(...) for
\* one configuration: a call whose positional arguments are not as many as
\* the parameters raises TypeError before the body runs
ConfigurationOutcome(config, r) ==
    IF Len(ManagerArguments) # Len(ManagerParameters)
    THEN Raised("TypeError", "__init__() takes 6 positional arguments but 7 were given",
                Len(ManagerArguments), r)
    ELSE IF Len(LinkBudgetArguments) # Len(LinkBudgetParameters)
    THEN Raised("TypeError",
                "estimate_link_budget() takes 8 positional arguments but 9 were given",
                Len(LinkBudgetArguments), r)
    ELSE estimate_link_budget(
             [transmitter |-> Transmitter(TransmitterData,
                                  CHOOSE p \in ConstructorParameters : TRUE),
              site_area |-> SiteArea(SiteAreaData),
              interfering_transmitters |-> <<>>],
             BuildReceivers(<<ReceiverData("a", <<30, 40>>, FALSE)>>,
                            CHOOSE p \in ConstructorParameters : TRUE, <<>>),
             [frequency |-> config.entry.frequency,
              bandwidth |-> config.entry.bandwidth,
              generation |-> config.entry.generation,
              mast_height |-> 300,
              environment |-> config.environment,
              modulation_and_coding_lut |-> SimulatorLut,
              simulation_parameters |-> CHOOSE p \in SessionParameters : TRUE],
             r)

InitSweep ==
    /\ transmitter = None
    /\ site_area = None
    /\ receivers = <<>>
    /\ interfering_transmitters = <<>>
    /\ results = <<>>
    /\ error = None
    /\ rng = 0
    /\ fn = "run_simulator"
    /\ input \in [spectrum_portfolio : SeqsUpTo(SweepEntries, MaxPortfolio),
                  tranmission_types : SweepTransmissionTypes]
    /\ call = Some(1)
    /\ pc = "loop"
    /\ output = <<>>
    /\ first = None

\* a 4G spectrum entry under a transmission type other than 1x1: continue
SkipConfiguration ==
    /\ pc = "loop"
    /\ Val(call) <= SweepLength(input)
    /\ Skipped(ConfigurationAt(input, Val(call)))
    /\ call' = Some(Val(call) + 1)
    /\ UNCHANGED <<transmitter, site_area, receivers, interfering_transmitters,
                   pc, results, error, rng, fn, input, output, first>>

\* the body of the innermost loop for one configuration: the manager, the
\* link budget, then write_full_results and write_frequency_lookup_table;
\* run_simulator has no exception handler, so an exception leaves it
ProcessConfiguration ==
    /\ pc = "loop"
    /\ Val(call) <= SweepLength(input)
    /\ ~Skipped(ConfigurationAt(input, Val(call)))
    /\ \E outcome \in {ConfigurationOutcome(ConfigurationAt(input, Val(call)), rng)} :
           /\ rng' = outcome.rng
           /\ IF IsReturn(outcome)
              THEN /\ results' = outcome.value
                   /\ output' = Append(output, ConfigurationAt(input, Val(call)))
                   /\ call' = Some(Val(call) + 1)
                   /\ UNCHANGED <<pc, error>>
              ELSE /\ pc' = "raised"
                   /\ error' = Some([type |-> outcome.type, msg |-> outcome.msg])
                   /\ UNCHANGED <<results, output, call>>
    /\ UNCHANGED <<transmitter, site_area, receivers, interfering_transmitters,
                   fn, input, first>>

\* the loops are exhausted and run_simulator returns
SweepEnds ==
    /\ pc = "loop"
    /\ Val(call) = SweepLength(input) + 1
    /\ pc' = "returned"
    /\ UNCHANGED <<transmitter, site_area, receivers, interfering_transmitters,
                   call, results, error, rng, fn, input, output, first>>

NextSweep == SkipConfiguration \/ ProcessConfiguration \/ SweepEnds

SpecSweep == InitSweep /\ [][NextSweep]_vars

\* the configurations of a sweep that are not passed over by `continue`
Attempted(args) == SelectSeq(Configurations(args), LAMBDA c : ~Skipped(c))

\* C30: in run_simulator's sweep a configuration whose link-budget
\* computation raises is skipped, and every remaining configuration of the
\* sweep is still processed and written: no exception leaves run_simulator,
\* and when it returns, the configurations written are those attempted
\* whose computation does not raise, in the order of the sweep.
C30_RaisingConfigurationSkipped ==
    /\ pc # "raised"
    /\ pc = "returned" =>
           output = SelectSeq(Attempted(input),
                              LAMBDA c : IsReturn(ConfigurationOutcome(c, rng)))

====
